---- MODULE Spec2Model ----
(***************************************************************************)
(* Model of the MIDI core of AMT_UI and of the two components that feed   *)
(* the transcription slice of its store:                                   *)
(*   src/src/utils/comparisonMetrics.ts  (compareMidiData and its helpers) *)
(*   src/src/utils/midiProcessor.ts      (parseMidiData, processMidi,      *)
(*                                        validateMidiData, getNoteName,   *)
(*                                        getMidiNote)                     *)
(*   the hook useTranscription, the slice transcriptionSlice               *)
(*   src/src/components/AudioUploader/AudioUploader.tsx                    *)
(* Each has its own specification over the same variables; the variables  *)
(* of the others stay at their idle values.                                *)
(*                                                                         *)
(* One comparison is a run of the state machine                            *)
(*   "sort"  --SortInputs-->  "match"  --MatchStep*-->  "match"            *)
(*           --ComputeReport-->  "done"                                    *)
(* SortInputs is the head of compareMidiData (config merge and the two     *)
(* sorted copies), MatchStep is one iteration of the outer loop of         *)
(* matchNotes, ComputeReport is the tail of matchNotes followed by every   *)
(* metric and the returned report.  One call of parseMidiData is a run of  *)
(*   "call"  --Passthrough-->  "settled"                                   *)
(*   "call"  --ToBytes-->  "bytes"  --Construct-->  "midi"  --Process-->   *)
(*   "settled", with ToBytes and ConstructThrows leading to "catch" and    *)
(*   Catch from there to "settled".                                        *)
(*                                                                         *)
(* Numbers.  A JavaScript number is modelled by an exact rational <<n, d>> *)
(* with d > 0 in lowest terms; <<0, 0>> is NaN and <<1, 0>>, <<-1, 0>> are *)
(* +Infinity and -Infinity.  Times are in seconds, as in the code.  A      *)
(* result that is irrational (a square root), or that IEEE-754 rounds      *)
(* strictly below the exact value at a point where a comparison with 1     *)
(* sees it (Math.sqrt(x) * Math.sqrt(y)), is returned truncated to a       *)
(* multiple of 1/Scale.                                                    *)
(***************************************************************************)
EXTENDS Integers, Sequences, FiniteSets, TLC

(***************************************************************************)
(* Bounds of the model.                                                    *)
(***************************************************************************)
\* Longest generated / reference note list of a general comparison.
MaxNotes == 2
\* Longest note list of a self-comparison.
MaxSelfNotes == 3
\* Resolution to which irrational results are truncated.
Scale == 100
\* Most tracks of a MIDI file given to parseMidiData.
MaxTracks == 2
\* Most notes of one track.
MaxTrackNotes == 2
\* Most calls of parseMidiData in a row, each on the result of the last.
MaxCalls == 2
\* Most comparisons in a row.
MaxCompares == 3
\* Longest note list of a comparison of rhythms.
MaxRhythmNotes == 3
\* Highest MIDI pitch named.
MaxPitch == 127
\* Most ticks of the polling interval of one transcription.
MaxPolls == 2
\* Most files dropped on the uploader.
MaxDrops == 2
\* Most clicks on the remove button of the uploader.
MaxRemoves == 2

(***************************************************************************)
(* JavaScript numbers as rationals.                                        *)
(***************************************************************************)
RECURSIVE GCD(_, _)
GCD(a, b) == IF b = 0 THEN a ELSE GCD(b, a % b)

AbsInt(a) == IF a < 0 THEN -a ELSE a

SignInt(a) == IF a < 0 THEN -1 ELSE IF a = 0 THEN 0 ELSE 1

NaN == <<0, 0>>

PosInf == <<1, 0>>

NegInf == <<-1, 0>>

IsNaN(x) == x = NaN

\* isFinite(x)
isFinite(x) == x[2] # 0

\* The rational n/d in lowest terms, d # 0.
Rat(n, d) ==
    LET g == GCD(AbsInt(n), AbsInt(d))
        s == IF d < 0 THEN -1 ELSE 1
    IN <<(s * n) \div g, (s * d) \div g>>

Num(n) == <<n, 1>>

Zero == <<0, 1>>

One == <<1, 1>>

\* x + y
Add(x, y) ==
    IF IsNaN(x) \/ IsNaN(y) THEN NaN
    ELSE IF ~isFinite(x) /\ ~isFinite(y) THEN (IF x = y THEN x ELSE NaN)
    ELSE IF ~isFinite(x) THEN x
    ELSE IF ~isFinite(y) THEN y
    ELSE LET g == GCD(x[2], y[2])
         IN Rat(x[1] * (y[2] \div g) + y[1] * (x[2] \div g), x[2] * (y[2] \div g))

\* -x
Neg(x) == <<-x[1], x[2]>>

\* x - y
Sub(x, y) == Add(x, Neg(y))

\* x * y
Mul(x, y) ==
    IF IsNaN(x) \/ IsNaN(y) THEN NaN
    ELSE IF ~isFinite(x) \/ ~isFinite(y)
         THEN (IF x[1] = 0 \/ y[1] = 0 THEN NaN
               ELSE <<SignInt(x[1]) * SignInt(y[1]), 0>>)
    ELSE LET g1 == GCD(AbsInt(x[1]), y[2])
             g2 == GCD(AbsInt(y[1]), x[2])
         IN <<(x[1] \div g1) * (y[1] \div g2), (x[2] \div g2) * (y[2] \div g1)>>

\* x / y : 0/0 is NaN, a non-zero number over 0 is an infinity.
Div(x, y) ==
    IF IsNaN(x) \/ IsNaN(y) THEN NaN
    ELSE IF ~isFinite(y) THEN (IF isFinite(x) THEN Zero ELSE NaN)
    ELSE IF ~isFinite(x)
         THEN (IF y[1] < 0 THEN Neg(x) ELSE x)
    ELSE IF y[1] = 0 THEN <<SignInt(x[1]), 0>>
    ELSE Mul(x, Rat(y[2], y[1]))

\* x < y ; every comparison with NaN is false
Lt(x, y) ==
    IF IsNaN(x) \/ IsNaN(y) THEN FALSE
    ELSE IF ~isFinite(x) \/ ~isFinite(y)
         THEN (IF x = y THEN FALSE
               ELSE IF x = NegInf \/ y = PosInf THEN TRUE ELSE FALSE)
    ELSE x[1] * y[2] < y[1] * x[2]

\* x > y
Gt(x, y) == Lt(y, x)

\* x <= y
Leq(x, y) == ~IsNaN(x) /\ ~IsNaN(y) /\ ~Lt(y, x)

\* Math.abs(x)
Abs(x) == <<AbsInt(x[1]), x[2]>>

\* Math.max(x, y) ; NaN if either argument is NaN
Max(x, y) == IF IsNaN(x) \/ IsNaN(y) THEN NaN ELSE IF Lt(x, y) THEN y ELSE x

\* Math.min(x, y) ; NaN if either argument is NaN
Min(x, y) == IF IsNaN(x) \/ IsNaN(y) THEN NaN ELSE IF Lt(y, x) THEN y ELSE x

\* x || y on numbers: y when x is 0 or NaN
OrElse(x, y) == IF IsNaN(x) \/ (isFinite(x) /\ x[1] = 0) THEN y ELSE x

\* function clamp01(x)
clamp01(x) == Max(Zero, Min(One, x))

\* x is a number of the closed interval [0, 1]
InUnit(x) == isFinite(x) /\ Leq(Zero, x) /\ Leq(x, One)

\* The literal 1e-8 of normalizeZ, pearson and cosineSimilarity.
Epsilon == <<1, 100000000>>

(***************************************************************************)
(* Notes and inputs.  A ProcessedNote keeps the fields the comparison      *)
(* reads; id stands for the string `${trackIndex}-${noteIndex}`, distinct  *)
(* within one decoded file.                                                *)
(***************************************************************************)
ProcessedNote(id, startTime, shape) ==
    [id |-> id, note |-> shape.note, velocity |-> shape.velocity,
     startTime |-> startTime, endTime |-> Add(startTime, shape.duration),
     duration |-> shape.duration]

RECURSIVE MaxEnd(_, _)
MaxEnd(notes, k) ==
    IF k > Len(notes) THEN Zero ELSE Max(notes[k].endTime, MaxEnd(notes, k + 1))

\* A decoded file: the flat note list and midi.duration, the end of the
\* last sounding note (0 for a file without notes).
ProcessedMidiData(notes) == [notes |-> notes, duration |-> MaxEnd(notes, 1)]

\* The notes of the general comparisons, as <<onset, shape>>: two equal
\* notes 0.05 s apart, a later and shorter one of the same pitch 0.1 s
\* after the second, and one a semitone higher.
Notes ==
    {<<Zero, [note |-> 60, velocity |-> 80, duration |-> <<1, 10>>]>>,
     <<<<1, 20>>, [note |-> 60, velocity |-> 80, duration |-> <<1, 10>>]>>,
     <<<<3, 20>>, [note |-> 60, velocity |-> 64, duration |-> <<1, 40>>]>>,
     <<<<1, 20>>, [note |-> 61, velocity |-> 64, duration |-> <<1, 40>>]>>}

\* The notes of the comparisons under varied configurations: a note of
\* pitch 60, velocity 80 and duration 0.5 s at 0 s and at 0.05 s, and a
\* different note at 0.2 s.
ScenarioNotes ==
    {<<Zero, [note |-> 60, velocity |-> 80, duration |-> <<1, 2>>]>>,
     <<<<1, 20>>, [note |-> 60, velocity |-> 80, duration |-> <<1, 2>>]>>,
     <<<<1, 5>>, [note |-> 62, velocity |-> 70, duration |-> <<1, 4>>]>>}

\* The notes of the self-comparisons: onsets 0 s, 0.05 s, 0.1 s and three
\* shapes, two of them an octave apart.
SelfNotes ==
    {Zero, <<1, 20>>, <<1, 10>>} \X
    {[note |-> 60, velocity |-> 80, duration |-> <<1, 10>>],
     [note |-> 61, velocity |-> 64, duration |-> <<1, 40>>],
     [note |-> 72, velocity |-> 100, duration |-> <<1, 10>>]}

\* The note list with the onsets and shapes f[1], f[2], ... , the k-th note
\* carrying id k.
NoteList(f) == [k \in DOMAIN f |-> ProcessedNote(k, f[k][1], f[k][2])]

(***************************************************************************)
(* Configuration.                                                          *)
(***************************************************************************)
\* const defaultConfig
defaultConfig ==
    [timingToleranceSec |-> <<1, 10>>,
     pitchToleranceSemitones |-> Zero,
     velocityTolerance |-> Num(10),
     matchWeights |-> [timing |-> <<1, 2>>, pitch |-> <<1, 5>>,
                       velocity |-> <<1, 10>>, duration |-> <<1, 5>>],
     overallWeights |->
        [noteAccuracy |-> <<3, 10>>, timingAccuracy |-> <<1, 5>>,
         rhythmAccuracy |-> <<3, 20>>, velocityAccuracy |-> <<1, 10>>,
         durationAccuracy |-> <<1, 10>>, pitchClassSimilarity |-> <<3, 40>>,
         densitySimilarity |-> <<1, 20>>, polyphonySimilarity |-> <<1, 40>>,
         rangeOverlap |-> Zero],
     densityWindowSec |-> One,
     polyphonyWindowSec |-> <<1, 10>>]

\* The cfg arguments of the general comparisons: none, and overrides of
\* the two tolerances.
Overrides ==
    {[k \in {} |-> Zero],
     [timingToleranceSec |-> <<1, 20>>, pitchToleranceSemitones |-> One],
     [timingToleranceSec |-> Zero]}

\* The cfg arguments of the comparisons of the scenario notes: none, a
\* tighter and a negative timing tolerance, and weight maps that name a key
\* which is no computed metric, that add up to zero, and that hold a
\* negative weight.
ConfigOverrides ==
    {[k \in {} |-> Zero],
     [timingToleranceSec |-> <<1, 20>>],
     [timingToleranceSec |-> <<-1, 10>>],
     [overallWeights |-> [noteAccuracy |-> One, precision |-> One]],
     [overallWeights |-> [timingAccuracy |-> Zero, rangeOverlap |-> Zero]],
     [overallWeights |-> [noteAccuracy |-> One, timingAccuracy |-> <<-1, 2>>]]}

\* { ...defaultConfig, ...(cfg || {}) }
MergeConfig(c) ==
    [k \in DOMAIN defaultConfig |->
        IF k \in DOMAIN c THEN c[k] ELSE defaultConfig[k]]

(***************************************************************************)
(* compareMidiData, head: the sorted copies.                               *)
(***************************************************************************)
\* Insert note n into the sorted list s after every note that does not
\* start later (Array.prototype.sort is stable).
RECURSIVE InsertByStart(_, _)
InsertByStart(s, n) ==
    IF s = <<>> THEN <<n>>
    ELSE IF Lt(n.startTime, s[Len(s)].startTime)
         THEN Append(InsertByStart(SubSeq(s, 1, Len(s) - 1), n), s[Len(s)])
         ELSE Append(s, n)

\* [...notes].sort((a, b) => a.startTime - b.startTime)
RECURSIVE SortByStart(_)
SortByStart(notes) ==
    IF notes = <<>> THEN <<>>
    ELSE InsertByStart(SortByStart(SubSeq(notes, 1, Len(notes) - 1)),
                       notes[Len(notes)])

\* Mutant: the list itself is sorted, not a copy of it.
ArgumentAfterSort_InPlace(d, sorted) == [d EXCEPT !.notes = sorted]

\* The argument of compareMidiData after [...d.notes].sort(...): the spread
\* makes a new array, which sort orders in place; d.notes is not written.
ArgumentAfterSort(d, sorted) == d

(***************************************************************************)
(* matchNotes.                                                             *)
(***************************************************************************)
\* Mutant: the consumed reference notes are not skipped.
StillUnmatched_NeverSkips(ref, unmatched) == TRUE

\* if (!unmatchedReference.has(ref.id)) continue;   (negated)
StillUnmatched(ref, unmatched) == ref.id \in unmatched

\* Mutant: && in place of || in the tolerance gate.
OutOfTolerance_Both(timingDistance, pitchDistance, config) ==
    /\ Gt(timingDistance, config.timingToleranceSec)
    /\ Gt(pitchDistance, config.pitchToleranceSemitones)

\* Mutant: >= in place of >, so that a distance equal to the tolerance
\* is rejected.
OutOfTolerance_Inclusive(timingDistance, pitchDistance, config) ==
    \/ ~Lt(timingDistance, config.timingToleranceSec)
    \/ ~Lt(pitchDistance, config.pitchToleranceSemitones)

\* timingDistance > cfg.timingToleranceSec ||
\* pitchDistance > cfg.pitchToleranceSemitones
OutOfTolerance(timingDistance, pitchDistance, config) ==
    \/ Gt(timingDistance, config.timingToleranceSec)
    \/ Gt(pitchDistance, config.pitchToleranceSemitones)

\* timingDistance * 2.0 + pitchDistance * 0.1 + durationDistance * 0.5
Distance(timingDistance, pitchDistance, durationDistance) ==
    Add(Add(Mul(timingDistance, Num(2)), Mul(pitchDistance, <<1, 10>>)),
        Mul(durationDistance, <<1, 2>>))

\* Mutant: <= in place of <, so that a later candidate wins a tie.
Improves_OrEqual(distance, bestScore) == Leq(distance, bestScore)

\* Mutant: > in place of <.
Improves_Greater(distance, bestScore) == Gt(distance, bestScore)

\* if (distance < bestScore)
Improves(distance, bestScore) == Lt(distance, bestScore)

\* The inner loop over reference from position k on: the position of
\* bestRef in the reference list when the loop ends, 0 for undefined.
RECURSIVE ScanReference(_, _, _, _, _, _, _)
ScanReference(gen, refs, k, unmatched, config, bestRef, bestScore) ==
    IF k > Len(refs) THEN bestRef
    ELSE LET ref == refs[k]
             timingDistance == Abs(Sub(gen.startTime, ref.startTime))
             pitchDistance == Abs(Sub(Num(gen.note), Num(ref.note)))
             durationDistance == Abs(Sub(gen.duration, ref.duration))
             distance == Distance(timingDistance, pitchDistance, durationDistance)
         IN IF ~StillUnmatched(ref, unmatched)
               \/ OutOfTolerance(timingDistance, pitchDistance, config)
               \/ ~Improves(distance, bestScore)
            THEN ScanReference(gen, refs, k + 1, unmatched, config,
                               bestRef, bestScore)
            ELSE ScanReference(gen, refs, k + 1, unmatched, config, k, distance)

\* The NoteMatch pushed for gen and bestRef.
NoteMatch(gen, bestRef, config) ==
    LET timingError == Abs(Sub(gen.startTime, bestRef.startTime))
        pitchError == Abs(Sub(Num(gen.note), Num(bestRef.note)))
        velocityError == Abs(Sub(Num(gen.velocity), Num(bestRef.velocity)))
        durationError == Abs(Sub(gen.duration, bestRef.duration))
        timingQuality ==
            Max(Zero, Sub(One, Div(timingError, config.timingToleranceSec)))
        pitchQuality ==
            IF pitchError = Zero THEN One
            ELSE Max(Zero, Sub(One, Div(pitchError, Num(12))))
        velocityQuality == Max(Zero, Sub(One, Div(velocityError, Num(127))))
        durationQuality ==
            Max(Zero, Sub(One, Div(durationError,
                                   Max(<<1, 20>>, bestRef.duration))))
        w == config.matchWeights
    IN [generated |-> gen, reference |-> bestRef,
        timingError |-> timingError, pitchError |-> pitchError,
        velocityError |-> velocityError, durationError |-> durationError,
        matchQuality |->
            Add(Add(Add(Mul(timingQuality, w.timing), Mul(pitchQuality, w.pitch)),
                    Mul(velocityQuality, w.velocity)),
                Mul(durationQuality, w.duration))]

\* Mutant: the filter of the generated notes looks at m.reference.id.
HasGenerated_ByReference(ms, g) == \E k \in 1..Len(ms) : ms[k].reference.id = g.id

\* matches.find((m) => m.generated.id === g.id) finds a match
HasGenerated(ms, g) == \E k \in 1..Len(ms) : ms[k].generated.id = g.id

\* matches.find((m) => m.reference.id === r.id) finds a match
HasReference(ms, r) == \E k \in 1..Len(ms) : ms[k].reference.id = r.id

\* notes.filter((n) => keep(n)) for the two filters of matchNotes
RECURSIVE FilterUnmatched(_, _, _)
FilterUnmatched(notes, ms, side) ==
    IF notes = <<>> THEN <<>>
    ELSE LET rest == FilterUnmatched(Tail(notes), ms, side)
             found == IF side = "generated" THEN HasGenerated(ms, Head(notes))
                      ELSE HasReference(ms, Head(notes))
         IN IF found THEN rest ELSE <<Head(notes)>> \o rest

\* generated.filter((g) => !matches.find((m) => m.generated.id === g.id))
UnmatchedGen(generatedList, ms) == FilterUnmatched(generatedList, ms, "generated")

\* reference.filter((r) => !matches.find((m) => m.reference.id === r.id))
UnmatchedRef(referenceList, ms) == FilterUnmatched(referenceList, ms, "reference")

(***************************************************************************)
(* Square roots.  Math.sqrt is never the last operation of a metric: it    *)
(* always ends up as a quotient s / (sqrt(x) * sqrt(y)), which is the      *)
(* number SqrtQuotient(s, x * y).                                          *)
(***************************************************************************)
\* The largest k in lo..hi with k * k <= n  (lo * lo <= n).
RECURSIVE ISqrtIn(_, _, _)
ISqrtIn(n, lo, hi) ==
    IF lo >= hi THEN lo
    ELSE LET mid == (lo + hi + 1) \div 2
         IN IF mid * mid <= n THEN ISqrtIn(n, mid, hi) ELSE ISqrtIn(n, lo, mid - 1)

\* floor(sqrt(n)) for 0 <= n < 2^30
ISqrt(n) == ISqrtIn(n, 0, IF n < 32768 THEN n ELSE 32768)

IsSquare(n) == ISqrt(n) * ISqrt(n) = n

\* Math.floor(x) and Math.ceil(x) of a finite x, as integers
Floor(x) ==
    IF x[1] >= 0 THEN x[1] \div x[2] ELSE -((-x[1] + x[2] - 1) \div x[2])

Ceil(x) == -Floor(Neg(x))

\* x truncated toward zero to a multiple of 1/Scale
Truncate(x) ==
    IF x[1] >= 0 THEN Rat(Floor(Mul(x, Num(Scale))), Scale)
    ELSE Rat(Ceil(Mul(x, Num(Scale))), Scale)

\* The multiple of 1/Scale next below a positive x: what is left of a
\* double that lies one rounding step below x.
TruncateBelow(x) == Rat(Ceil(Mul(x, Num(Scale))) - 1, Scale)

\* s / sqrt(r) for r > 0 and |s| <= sqrt(r): exact when it is rational,
\* else truncated toward zero.
SqrtQuotient(s, r) ==
    LET q == Div(Mul(s, s), r)
    IN IF IsSquare(q[1]) /\ IsSquare(q[2])
       THEN Rat(SignInt(s[1]) * ISqrt(q[1]), ISqrt(q[2]))
       ELSE Rat(SignInt(s[1]) * ISqrt((Scale * Scale * q[1]) \div q[2]), Scale)

\* The pairs <<x, y>> of integers up to 64 with x * y a perfect square for
\* which the double Math.sqrt(x) * Math.sqrt(y) is greater than
\* sqrt(x * y) (IEEE-754 binary64, round to nearest).
SqrtProductRoundsUp ==
    LET up == {<<2, 2>>, <<2, 8>>, <<2, 32>>, <<2, 50>>, <<5, 5>>, <<5, 20>>,
               <<5, 45>>, <<7, 7>>, <<7, 28>>, <<7, 63>>, <<8, 8>>, <<8, 32>>,
               <<8, 50>>, <<10, 10>>, <<10, 40>>, <<15, 15>>, <<15, 60>>,
               <<19, 19>>, <<20, 20>>, <<20, 45>>, <<28, 28>>, <<28, 63>>,
               <<32, 32>>, <<32, 50>>, <<40, 40>>, <<45, 45>>, <<50, 50>>,
               <<51, 51>>, <<58, 58>>, <<60, 60>>, <<63, 63>>}
    IN up \cup {<<p[2], p[1]>> : p \in up}

(***************************************************************************)
(* Sums over sequences.                                                    *)
(***************************************************************************)
\* arr.reduce((s, v) => s + v, 0)
RECURSIVE SumTo(_, _)
SumTo(arr, k) == IF k = 0 THEN Zero ELSE Add(SumTo(arr, k - 1), arr[k])

Sum(arr) == SumTo(arr, Len(arr))

\* the same for a list of integers
RECURSIVE IntSumTo(_, _)
IntSumTo(arr, k) == IF k = 0 THEN 0 ELSE IntSumTo(arr, k - 1) + arr[k]

IntSum(arr) == IntSumTo(arr, Len(arr))

\* arr.map over a field or expression: the sequence of F-values
Column(ms, F(_)) == [k \in 1..Len(ms) |-> F(ms[k])]

\* Math.max(...arr) and Math.min(...arr) of a non-empty integer list
MaxOf(arr) ==
    CHOOSE m \in {arr[k] : k \in 1..Len(arr)} : \A k \in 1..Len(arr) : arr[k] <= m

MinOf(arr) ==
    CHOOSE m \in {arr[k] : k \in 1..Len(arr)} : \A k \in 1..Len(arr) : arr[k] >= m

(***************************************************************************)
(* The metrics.                                                            *)
(***************************************************************************)
\* Mutant: the total timing error in place of its average.
calculateTimingAccuracy_Total(ms, c) ==
    IF Len(ms) = 0 THEN Zero
    ELSE LET TimingError(m) == m.timingError
         IN clamp01(Sub(One, Div(Sum(Column(ms, TimingError)),
                                 c.timingToleranceSec)))

\* function calculateTimingAccuracy(matches, cfg)
calculateTimingAccuracy(ms, c) ==
    IF Len(ms) = 0 THEN Zero
    ELSE LET TimingError(m) == m.timingError
             avg == Div(Sum(Column(ms, TimingError)), Num(Len(ms)))
         IN clamp01(Sub(One, Div(avg, c.timingToleranceSec)))

\* function diffs(arr)
diffs(arr) ==
    IF Len(arr) = 0 THEN <<>>
    ELSE [k \in 1..(Len(arr) - 1) |-> Sub(arr[k + 1], arr[k])]

\* function normalizeZ(arr): the list of (v - mean) / denom with
\* denom = std || 1e-8 , kept as the deviations v - mean and the variance
\* std * std, since std is irrational in general.
normalizeZ(arr) ==
    LET mean == Div(Sum(arr), Num(IF Len(arr) = 0 THEN 1 ELSE Len(arr)))
        dev == [k \in 1..Len(arr) |-> Sub(arr[k], mean)]
        Square(v) == Mul(v, v)
    IN [dev |-> dev,
        variance |-> Div(Sum(Column(dev, Square)),
                         Num(IF Len(arr) = 0 THEN 1 ELSE Len(arr)))]

\* function pearson(a, b) of two lists made by normalizeZ.  With a
\* non-zero std the z-scores have mean 0, so va = a[i], vb = b[i],
\* num = sum(deva * devb) / (stda * stdb), da = db = n and
\* num / den = sum(deva * devb) / sqrt(sum(deva^2) * sum(devb^2)).
\* With a zero std every z-score is 0 / 1e-8 = 0, den is 0 || 1e-8 and
\* the result is 0 / 1e-8.
pearson(a, b) ==
    LET n == IF Len(a.dev) < Len(b.dev) THEN Len(a.dev) ELSE Len(b.dev)
        Square(v) == Mul(v, v)
        cross == Sum([k \in 1..n |-> Mul(a.dev[k], b.dev[k])])
        da == Sum(Column(SubSeq(a.dev, 1, n), Square))
        db == Sum(Column(SubSeq(b.dev, 1, n), Square))
    IN IF n = 0 THEN Zero
       ELSE IF a.variance = Zero \/ b.variance = Zero THEN Div(Zero, Epsilon)
       ELSE SqrtQuotient(cross, Mul(da, db))

\* Mutant: the reference intervals are correlated with themselves.
calculateRhythmAccuracy_ReferenceOnly(ms) ==
    IF Len(ms) < 3 THEN Zero
    ELSE LET RefOnset(m) == m.reference.startTime
             refIoi == diffs(Column(ms, RefOnset))
         IN IF Len(refIoi) < 2 THEN Zero
            ELSE LET b == normalizeZ(refIoi)
                     corr == pearson(b, b)
                 IN IF isFinite(corr)
                    THEN clamp01(Div(Add(corr, One), Num(2)))
                    ELSE Zero

\* function calculateRhythmAccuracy(matches)
calculateRhythmAccuracy(ms) ==
    IF Len(ms) < 3 THEN Zero
    ELSE LET GenOnset(m) == m.generated.startTime
             RefOnset(m) == m.reference.startTime
             genIoi == diffs(Column(ms, GenOnset))
             refIoi == diffs(Column(ms, RefOnset))
             len == IF Len(genIoi) < Len(refIoi) THEN Len(genIoi) ELSE Len(refIoi)
         IN IF len < 2 THEN Zero
            ELSE LET a == normalizeZ(SubSeq(genIoi, 1, len))
                     b == normalizeZ(SubSeq(refIoi, 1, len))
                     corr == pearson(a, b)
                 IN IF isFinite(corr)
                    THEN clamp01(Div(Add(corr, One), Num(2)))
                    ELSE Zero

\* function calculateVelocityAccuracy(matches)
calculateVelocityAccuracy(ms) ==
    IF Len(ms) = 0 THEN Zero
    ELSE LET VelocityError(m) == Abs(m.velocityError)
             avg == Div(Sum(Column(ms, VelocityError)), Num(Len(ms)))
         IN clamp01(Sub(One, Div(avg, Num(127))))

\* Mutant: the reference durations without their floor of 0.05.
calculateDurationAccuracy_NoFloor(ms) ==
    IF Len(ms) = 0 THEN Zero
    ELSE LET RefDur(m) == m.reference.duration
             DurationError(m) == Abs(m.durationError)
             avgRefDur == Div(Sum(Column(ms, RefDur)), Num(Len(ms)))
             avgAbs == Div(Sum(Column(ms, DurationError)), Num(Len(ms)))
         IN clamp01(Sub(One, Div(avgAbs, avgRefDur)))

\* function calculateDurationAccuracy(matches)
calculateDurationAccuracy(ms) ==
    IF Len(ms) = 0 THEN Zero
    ELSE LET RefDur(m) == Max(<<1, 20>>, m.reference.duration)
             DurationError(m) == Abs(m.durationError)
             avgRefDur == Div(Sum(Column(ms, RefDur)), Num(Len(ms)))
             avgAbs == Div(Sum(Column(ms, DurationError)), Num(Len(ms)))
         IN clamp01(Sub(One, Div(avgAbs, avgRefDur)))

\* function cosineSimilarity(a, b) of two lists of integers
cosineSimilarity(a, b) ==
    LET n == IF Len(a) < Len(b) THEN Len(a) ELSE Len(b)
        dot == IntSum([k \in 1..n |-> a[k] * b[k]])
        na == IntSum([k \in 1..n |-> a[k] * a[k]])
        nb == IntSum([k \in 1..n |-> b[k] * b[k]])
    IN IF na = 0 \/ nb = 0 THEN clamp01(Div(Num(dot), Epsilon))
       ELSE IF <<na, nb>> \in SqrtProductRoundsUp /\ dot # 0
            THEN clamp01(TruncateBelow(SqrtQuotient(Num(dot), Num(na * nb))))
       ELSE clamp01(SqrtQuotient(Num(dot), Num(na * nb)))

\* Mutant: notes binned by octave in place of pitch class.
PitchClassHistogram_ByOctave(notes) ==
    [c \in 1..12 |->
        Cardinality({k \in 1..Len(notes) : (notes[k].note \div 12) % 12 = c - 1})]

\* The histogram of calculatePitchClassSimilarity: ha[n.note % 12]++
PitchClassHistogram(notes) ==
    [c \in 1..12 |-> Cardinality({k \in 1..Len(notes) : notes[k].note % 12 = c - 1})]

\* function calculatePitchClassSimilarity(a, b)
calculatePitchClassSimilarity(a, b) ==
    cosineSimilarity(PitchClassHistogram(a), PitchClassHistogram(b))

\* Math.max(1, Math.ceil(duration / windowSec))
Bins(duration, windowSec) ==
    LET c == Ceil(Div(duration, windowSec)) IN IF c < 1 THEN 1 ELSE c

\* function densitySeries(notes, duration, windowSec)
densitySeries(notes, duration, windowSec) ==
    LET bins == Bins(duration, windowSec)
        Idx(n) ==
            LET f == Floor(Div(n.startTime, windowSec))
                g == IF f < 0 THEN 0 ELSE f
            IN IF g > bins - 1 THEN bins - 1 ELSE g
    IN [i \in 1..bins |->
           Cardinality({k \in 1..Len(notes) : Idx(notes[k]) = i - 1})]

\* function polyphonySeries(notes, duration, windowSec)
polyphonySeries(notes, duration, windowSec) ==
    LET bins == Bins(duration, windowSec)
    IN [i \in 1..bins |->
           LET t0 == Mul(Num(i - 1), windowSec)
               t1 == Min(duration, Mul(Num(i), windowSec))
           IN Cardinality({k \in 1..Len(notes) :
                  Lt(notes[k].startTime, t1) /\ Gt(notes[k].endTime, t0)})]

\* function sequenceSimilarity(a, b) of two lists of integers
sequenceSimilarity(a, b) ==
    LET len == IF Len(a) < Len(b) THEN Len(a) ELSE Len(b)
    IN IF len = 0 THEN Zero
       ELSE LET aS == SubSeq(a, 1, len)
                bS == SubSeq(b, 1, len)
                maxA == IF MaxOf(aS) < 1 THEN 1 ELSE MaxOf(aS)
                maxB == IF MaxOf(bS) < 1 THEN 1 ELSE MaxOf(bS)
                mae == Div(Sum([k \in 1..len |->
                               Abs(Sub(Rat(aS[k], maxA), Rat(bS[k], maxB)))]),
                           Num(len))
            IN clamp01(Sub(One, mae))

\* function calculateDensitySimilarity(a, b, duration, windowSec)
calculateDensitySimilarity(a, b, duration, windowSec) ==
    IF Leq(duration, Zero) THEN Zero
    ELSE sequenceSimilarity(densitySeries(a, duration, windowSec),
                            densitySeries(b, duration, windowSec))

\* function calculatePolyphonySimilarity(a, b, duration, windowSec)
calculatePolyphonySimilarity(a, b, duration, windowSec) ==
    IF Leq(duration, Zero) THEN Zero
    ELSE sequenceSimilarity(polyphonySeries(a, duration, windowSec),
                            polyphonySeries(b, duration, windowSec))

\* function calculateRangeOverlap(a, b)
calculateRangeOverlap(a, b) ==
    IF Len(a) = 0 \/ Len(b) = 0 THEN Zero
    ELSE LET Pitch(n) == n.note
             amin == MinOf(Column(a, Pitch))
             amax == MaxOf(Column(a, Pitch))
             bmin == MinOf(Column(b, Pitch))
             bmax == MaxOf(Column(b, Pitch))
             lo == IF amin > bmin THEN amin ELSE bmin
             hi == IF amax < bmax THEN amax ELSE bmax
             inter == IF hi - lo < 0 THEN 0 ELSE hi - lo
             span == (IF amax > bmax THEN amax ELSE bmax)
                     - (IF amin < bmin THEN amin ELSE bmin)
             union == IF span = 0 THEN 1 ELSE span
         IN clamp01(Rat(inter, union))

\* Object.keys(weights): the keys of the weight maps of the model in the
\* order in which defaultConfig writes them, then the key "precision" that
\* one of the maps adds.
WeightKeys ==
    <<"noteAccuracy", "timingAccuracy", "rhythmAccuracy", "velocityAccuracy",
      "durationAccuracy", "pitchClassSimilarity", "densitySimilarity",
      "polyphonySimilarity", "rangeOverlap", "precision">>

\* The keys the loop of weightedAverage visits: for (const k of
\* Object.keys(weights)) if (k in values)
UsedKeys(values, weights) ==
    SelectSeq(WeightKeys, LAMBDA k : k \in DOMAIN weights /\ k \in DOMAIN values)

\* Mutant: wsum += w outside the test k in values.
weightedAverage_AllWeights(values, weights) ==
    LET keys == UsedKeys(values, weights)
        all == SelectSeq(WeightKeys, LAMBDA k : k \in DOMAIN weights)
        sum == Sum([i \in 1..Len(keys) |-> Mul(values[keys[i]], weights[keys[i]])])
        wsum == Sum([i \in 1..Len(all) |-> weights[all[i]]])
    IN IF Gt(wsum, Zero) THEN Div(sum, wsum) ELSE Zero

\* function weightedAverage(values, weights)
weightedAverage(values, weights) ==
    LET keys == UsedKeys(values, weights)
        sum == Sum([i \in 1..Len(keys) |-> Mul(values[keys[i]], weights[keys[i]])])
        wsum == Sum([i \in 1..Len(keys) |-> weights[keys[i]]])
    IN IF Gt(wsum, Zero) THEN Div(sum, wsum) ELSE Zero

\* Mutant: the ratio without the || 1 of its denominator.
Ratio_Unguarded(count, length) == Div(Num(count), Num(length))

\* matches.length / (notes.length || 1)
Ratio(count, length) == Rat(count, IF length = 0 THEN 1 ELSE length)

\* Mutant: the arithmetic mean in place of the harmonic mean.
F1_Arithmetic(precision, recall) == Div(Add(precision, recall), Num(2))

\* Mutant: the harmonic mean without its factor 2.
F1_Halved(precision, recall) ==
    IF Add(precision, recall) = Zero THEN Zero
    ELSE Div(Mul(precision, recall), Add(precision, recall))

\* precision + recall === 0 ? 0 : (2 * precision * recall) / (precision + recall)
F1(precision, recall) ==
    IF Add(precision, recall) = Zero THEN Zero
    ELSE Div(Mul(Mul(Num(2), precision), recall), Add(precision, recall))

\* compareMidiData from the return of matchNotes to its own return.
ComparisonMetrics(gen, ref, genNotes, refNotes, ms, unmatchedGen, unmatchedRef, c) ==
    LET precision == Ratio(Len(ms), Len(genNotes))
        recall == Ratio(Len(ms), Len(refNotes))
        f1 == F1(precision, recall)
        duration == Max(gen.duration, ref.duration)
        values ==
            [noteAccuracy |-> f1,
             timingAccuracy |-> calculateTimingAccuracy(ms, c),
             rhythmAccuracy |-> calculateRhythmAccuracy(ms),
             velocityAccuracy |-> calculateVelocityAccuracy(ms),
             durationAccuracy |-> calculateDurationAccuracy(ms),
             pitchClassSimilarity |-> calculatePitchClassSimilarity(genNotes, refNotes),
             densitySimilarity |->
                 calculateDensitySimilarity(genNotes, refNotes, duration,
                                            c.densityWindowSec),
             polyphonySimilarity |->
                 calculatePolyphonySimilarity(genNotes, refNotes, duration,
                                              c.polyphonyWindowSec),
             rangeOverlap |-> calculateRangeOverlap(genNotes, refNotes)]
    IN [returned |-> TRUE,
        overallScore |-> weightedAverage(values, c.overallWeights),
        noteAccuracy |-> f1,
        precision |-> precision,
        recall |-> recall,
        timingAccuracy |-> values.timingAccuracy,
        rhythmAccuracy |-> values.rhythmAccuracy,
        velocityAccuracy |-> values.velocityAccuracy,
        durationAccuracy |-> values.durationAccuracy,
        pitchClassSimilarity |-> values.pitchClassSimilarity,
        densitySimilarity |-> values.densitySimilarity,
        polyphonySimilarity |-> values.polyphonySimilarity,
        rangeOverlap |-> values.rangeOverlap,
        matchedCount |-> Len(ms),
        unmatchedGenerated |-> Len(unmatchedGen),
        unmatchedReference |-> Len(unmatchedRef),
        matches |-> ms]

(***************************************************************************)
(* MidiProcessor.  The class Midi of @tonejs/midi is outside the           *)
(* repository: its constructor is modelled by what it is documented to do, *)
(* throw on bytes that do not start with a header chunk MThd and return    *)
(* the tracks of a well-formed file, and by a free choice between the two  *)
(* on bytes damaged in another way.                                        *)
(***************************************************************************)
\* The notes the library delivers: velocity in 0..1, times in seconds.
LibNotes ==
    {[midi |-> 60, name |-> "C4", time |-> <<1, 2>>, duration |-> <<1, 2>>,
      velocity |-> <<80, 127>>],
     [midi |-> 64, name |-> "E4", time |-> Zero, duration |-> <<1, 4>>,
      velocity |-> <<1, 2>>]}

\* A track of the library with the given notes, unnamed, on channel 0.
LibTrack(notes) == [name |-> "", channel |-> 0, notes |-> notes]

\* The end of the last note of the tracks from t on.
RECURSIVE LastEnd(_, _)
LastEnd(tracks, t) ==
    IF t > Len(tracks) THEN Zero
    ELSE LET ends == [n \in 1..Len(tracks[t].notes) |->
                         [endTime |-> Add(tracks[t].notes[n].time,
                                          tracks[t].notes[n].duration)]]
         IN Max(MaxEnd(ends, 1), LastEnd(tracks, t + 1))

\* class Midi of @tonejs/midi: tracks, duration, header.tempos (as their
\* bpm) and header.timeSignatures.
ToneMidi(tracks, tempos) ==
    [tracks |-> tracks, duration |-> LastEnd(tracks, 1),
     header |-> [tempos |-> tempos, timeSignatures |-> <<>>]]

\* Math.round
Round(x) == Floor(Add(x, <<1, 2>>))

\* Mutant: the id is built from the note index alone.
ProcessedTrackNote_IdByNoteIndex(note, track, trackIndex, noteIndex) ==
    [id |-> <<0, noteIndex>>,
     note |-> note.midi,
     noteName |-> note.name,
     velocity |-> Round(Mul(note.velocity, Num(127))),
     startTime |-> note.time,
     endTime |-> Add(note.time, note.duration),
     duration |-> note.duration,
     channel |-> track.channel,
     track |-> trackIndex]

\* const processedNote of processMidi; trackIndex and noteIndex count
\* from 0 and the pair stands for the string `${trackIndex}-${noteIndex}`.
ProcessedTrackNote(note, track, trackIndex, noteIndex) ==
    [id |-> <<trackIndex, noteIndex>>,
     note |-> note.midi,
     noteName |-> note.name,
     velocity |-> Round(Mul(note.velocity, Num(127))),
     startTime |-> note.time,
     endTime |-> Add(note.time, note.duration),
     duration |-> note.duration,
     channel |-> track.channel,
     track |-> trackIndex]

\* const trackNotes of processMidi for the t-th track (t counts from 1).
TrackNotes(midi, t) ==
    [n \in 1..Len(midi.tracks[t].notes) |->
        ProcessedTrackNote(midi.tracks[t].notes[n], midi.tracks[t], t - 1, n - 1)]

\* Mutant: only the notes of the first track reach the flat list.
FlatNotes_FirstTrack(midi, t) == IF t = 0 THEN <<>> ELSE TrackNotes(midi, 1)

\* const notes of processMidi after the first t tracks.
RECURSIVE FlatNotes(_, _)
FlatNotes(midi, t) ==
    IF t = 0 THEN <<>> ELSE FlatNotes(midi, t - 1) \o TrackNotes(midi, t)

\* track.name || `Track ${trackIndex + 1}`
TrackName(track, t) == IF track.name = "" THEN <<"Track", t>> ELSE <<track.name, 0>>

\* const metadata of processMidi
Metadata(notes) ==
    LET Velocity(n) == n.velocity
        Pitch(n) == n.note
    IN [totalNotes |-> Len(notes),
        averageVelocity |->
            IF Len(notes) > 0
            THEN Div(Num(IntSum(Column(notes, Velocity))), Num(Len(notes)))
            ELSE Zero,
        noteRange |->
            IF Len(notes) > 0
            THEN <<MinOf(Column(notes, Pitch)), MaxOf(Column(notes, Pitch))>>
            ELSE <<0, 0>>]

\* private static processMidi(midi)
processMidi(midi) ==
    LET notes == FlatNotes(midi, Len(midi.tracks))
    IN [notes |-> notes,
        duration |-> midi.duration,
        tempo |-> IF midi.header.tempos = <<>> \/ midi.header.tempos[1] = 0
                  THEN 120 ELSE midi.header.tempos[1],
        timeSignature |-> <<4, 4>>,
        tracks |-> [t \in 1..Len(midi.tracks) |->
                       [name |-> TrackName(midi.tracks[t], t),
                        notes |-> TrackNotes(midi, t)]],
        metadata |-> Metadata(notes)]

\* Mutant: the guard asks whether data itself is an array.
IsProcessed_DataIsArray(d) == d.kind = "array"

\* typeof data === 'object' && data !== null &&
\* Array.isArray(data.notes) && Array.isArray(data.tracks)
IsProcessed(d) == d.kind = "object" /\ d.notesIsArray /\ d.tracksIsArray

\* The message of the error parseMidiData throws from its catch block.
InvalidFormat == "Invalid MIDI file format"

\* No Midi constructed.
NoMidi == ToneMidi(<<>>, <<>>)

\* A promise of parseMidiData not yet settled.
Pending == [state |-> "pending", ref |-> 0, value |-> processMidi(NoMidi), error |-> ""]

(***************************************************************************)
(* State.                                                                  *)
(***************************************************************************)
VARIABLES
    generated,          \* argument generated: ProcessedMidiData
    reference,          \* argument reference: ProcessedMidiData
    cfg,                \* argument cfg: the overrides
    pc,                 \* "sort", "match", "done"
    config,             \* const config
    generatedNotes,     \* const generatedNotes, the sorted copy
    referenceNotes,     \* const referenceNotes, the sorted copy
    gi,                 \* position of gen of the outer loop of matchNotes
    unmatchedReference, \* the Set unmatchedReference of matchNotes
    matches,            \* const matches of matchNotes
    matchResult,        \* the value returned by matchNotes
    report,             \* the returned ComparisonMetricsTs
    data,               \* argument data of parseMidiData
    dpc,                \* "idle", "call", "bytes", "midi", "catch", "settled"
    midi,               \* const midi of parseMidiData
    constructed,        \* whether new ToneMidi(...) was evaluated in this call
    thrown,             \* the error caught by the catch block
    outcome,            \* the promise parseMidiData returned
    calls,              \* the settled calls: argument and promise of each
    returned,           \* the finished comparisons: arguments and report
    vpc,                \* validateMidiData: "idle", "check", "parse", "returned"
    valid,              \* the value validateMidiData returned
    npc,                \* pitch naming: "idle", "name", "parse", "done"
    midiNote,           \* argument midiNote of getNoteName
    noteName,           \* the string getNoteName returned
    parsed,             \* what getMidiNote made of it: a number or an error
    store,              \* state.transcription of the Redux store
    dispatched,         \* the actions dispatched so far, in order
    tpc,                \* startTranscription: "idle", "uploading", "returned"
    transcriptionId,    \* const [transcriptionId, setTranscriptionId]; 0 is null
    pollingIntervalRef, \* pollingIntervalRef.current; 0 is null
    polls,              \* the interval callbacks: "status", "result", "done"
    job,                \* the transcription at the server
    cpc,                \* cancelTranscription: "idle", "awaiting", "finished"
    uploadProgress,     \* const [uploadProgress, setUploadProgress]
    isUploading,        \* const [isUploading, setIsUploading]
    intervals,          \* the running intervals of handleFileUpload, by file
    acceptedFiles,      \* acceptedFiles of useDropzone
    removedSince        \* handleRemoveFile ran and no file was dropped since

compareVars ==
    <<generated, reference, cfg, pc, config, generatedNotes, referenceNotes,
      gi, unmatchedReference, matches, matchResult, report>>

decodeVars == <<data, dpc, midi, constructed, thrown, outcome, calls>>

validateVars == <<vpc, valid>>

nameVars == <<npc, midiNote, noteName, parsed>>

storeVars == <<store, dispatched>>

transcriptionVars == <<tpc, transcriptionId, pollingIntervalRef, polls, job, cpc>>

uploadVars == <<uploadProgress, isUploading, intervals, acceptedFiles, removedSince>>

\* The variables outside the comparisons in a row and the decoder.
sideVars == <<validateVars, nameVars, storeVars, transcriptionVars, uploadVars>>

\* What validateMidiData leaves alone besides the variables of the decoder.
besideValidate ==
    <<compareVars, returned, nameVars, storeVars, transcriptionVars, uploadVars>>

\* What the naming of pitches leaves alone.
besideNames ==
    <<compareVars, decodeVars, returned, validateVars, storeVars,
      transcriptionVars, uploadVars>>

\* What useTranscription leaves alone besides the store.
besideTranscription ==
    <<compareVars, decodeVars, returned, validateVars, nameVars, uploadVars>>

\* What AudioUploader leaves alone besides the store.
besideUpload ==
    <<compareVars, decodeVars, returned, validateVars, nameVars,
      transcriptionVars>>

\* The variables outside the comparison under way and the decoder.
otherVars == <<returned, sideVars>>

vars == <<compareVars, decodeVars, otherVars>>

\* An argument of parseMidiData that is an object (or null, or an array):
\* its identity, whether its notes and tracks are arrays, its content.
DataObject(kind, ref, notesIsArray, tracksIsArray, value) ==
    [kind |-> kind, ref |-> ref, notesIsArray |-> notesIsArray,
     tracksIsArray |-> tracksIsArray, base64 |-> FALSE, bytes |-> "none",
     file |-> NoMidi, value |-> value]

\* An argument of parseMidiData that carries bytes: a string (base64 or
\* not), a Uint8Array or an ArrayBuffer; bytes tells whether they are a
\* Standard MIDI File ("smf"), lack the MThd header ("noMagic") or are
\* damaged later on ("damaged"), file what the library makes of them when
\* it returns.
DataBytes(kind, base64, bytes, file) ==
    [kind |-> kind, ref |-> 0, notesIsArray |-> FALSE, tracksIsArray |-> FALSE,
     base64 |-> base64, bytes |-> bytes, file |-> file,
     value |-> processMidi(NoMidi)]

\* No call of parseMidiData.
NoDecode ==
    /\ data = DataObject("null", 0, FALSE, FALSE, processMidi(NoMidi))
    /\ dpc = "idle"
    /\ midi = NoMidi
    /\ constructed = FALSE
    /\ thrown = ""
    /\ outcome = Pending
    /\ calls = <<>>

\* No report yet.
NoReport == [returned |-> FALSE]

\* No call of validateMidiData.
NoValidate == vpc = "idle" /\ valid = FALSE

\* A value getMidiNote returns, an error it throws.
Returned(value) == [ok |-> TRUE, value |-> value, error |-> ""]
Thrown(error) == [ok |-> FALSE, value |-> 0, error |-> error]

\* No pitch is being named.
NoNames ==
    /\ npc = "idle"
    /\ midiNote = 0
    /\ noteName = <<>>
    /\ parsed = Returned(0)

\* A File: name, size in bytes, MIME type.  NoFile stands for null.
File(name, size, type) == [name |-> name, size |-> size, type |-> type]
NoFile == File("", 0, "")

\* const initialState of transcriptionSlice; "" stands for null.
initialState ==
    [audioFile |-> NoFile, midiData |-> "", isTranscribing |-> FALSE,
     error |-> ""]

\* The store as created, nothing dispatched.
NoStore ==
    /\ store = initialState
    /\ dispatched = <<>>

\* useTranscription as mounted.
NoTranscription ==
    /\ tpc = "idle"
    /\ transcriptionId = 0
    /\ pollingIntervalRef = 0
    /\ polls = <<>>
    /\ job = "none"
    /\ cpc = "idle"

\* AudioUploader as mounted.
NoUpload ==
    /\ uploadProgress = 0
    /\ isUploading = FALSE
    /\ intervals = <<>>
    /\ acceptedFiles = <<>>
    /\ removedSince = FALSE

\* Neither component has done anything.
NoUi == NoStore /\ NoTranscription /\ NoUpload

\* Nothing but the comparison or the decoder has run.
OthersIdle ==
    /\ returned = <<>>
    /\ NoValidate
    /\ NoNames
    /\ NoUi

InitCall ==
    /\ pc = "sort"
    /\ config = defaultConfig
    /\ generatedNotes = <<>>
    /\ referenceNotes = <<>>
    /\ gi = 0
    /\ unmatchedReference = {}
    /\ matches = <<>>
    /\ matchResult = NoReport
    /\ report = NoReport
    /\ NoDecode
    /\ OthersIdle

\* Any two decoded files of at most MaxNotes notes, in any order, and any of
\* the configurations.
Init ==
    /\ \E n \in 0..MaxNotes : \E f \in [1..n -> Notes] :
          generated = ProcessedMidiData(NoteList(f))
    /\ \E n \in 0..MaxNotes : \E f \in [1..n -> Notes] :
          reference = ProcessedMidiData(NoteList(f))
    /\ cfg \in Overrides
    /\ InitCall

\* A decoded file of at most MaxSelfNotes notes compared with an exact copy
\* of itself, no cfg argument.
InitSelf ==
    /\ \E n \in 0..MaxSelfNotes : \E f \in [1..n -> SelfNotes] :
          /\ generated = ProcessedMidiData(NoteList(f))
          /\ reference = generated
    /\ cfg = [k \in {} |-> Zero]
    /\ InitCall

\* Any two decoded files of at most MaxNotes of the scenario notes and any
\* of the varied configurations.
InitConfig ==
    /\ \E n \in 0..MaxNotes : \E f \in [1..n -> ScenarioNotes] :
          generated = ProcessedMidiData(NoteList(f))
    /\ \E n \in 0..MaxNotes : \E f \in [1..n -> ScenarioNotes] :
          reference = ProcessedMidiData(NoteList(f))
    /\ cfg \in ConfigOverrides
    /\ InitCall

\* compareMidiData up to the call of matchNotes, and the first lines of
\* matchNotes.
SortInputs ==
    /\ pc = "sort"
    /\ config' = MergeConfig(cfg)
    /\ generatedNotes' = SortByStart(generated.notes)
    /\ referenceNotes' = SortByStart(reference.notes)
    /\ unmatchedReference' = {reference.notes[k].id : k \in 1..Len(reference.notes)}
    /\ matches' = <<>>
    /\ gi' = 1
    /\ generated' = ArgumentAfterSort(generated, generatedNotes')
    /\ reference' = ArgumentAfterSort(reference, referenceNotes')
    /\ pc' = "match"
    /\ UNCHANGED <<cfg, matchResult, report>>
    /\ UNCHANGED <<decodeVars, otherVars>>

\* One iteration of for (const gen of generated).
MatchStep ==
    /\ pc = "match"
    /\ gi <= Len(generatedNotes)
    /\ LET gen == generatedNotes[gi]
           best == ScanReference(gen, referenceNotes, 1, unmatchedReference,
                                 config, 0, PosInf)
       IN IF best # 0
          THEN /\ unmatchedReference' =
                     unmatchedReference \ {referenceNotes[best].id}
               /\ matches' =
                     Append(matches, NoteMatch(gen, referenceNotes[best], config))
          ELSE UNCHANGED <<unmatchedReference, matches>>
    /\ gi' = gi + 1
    /\ UNCHANGED <<generated, reference, cfg, pc, config, generatedNotes,
                   referenceNotes, matchResult, report>>
    /\ UNCHANGED <<decodeVars, otherVars>>

\* The end of the loop: the two filters and the return of matchNotes, then
\* the metrics and the return of compareMidiData.
ComputeReport ==
    /\ pc = "match"
    /\ gi > Len(generatedNotes)
    /\ LET unmatchedGen == UnmatchedGen(generatedNotes, matches)
           unmatchedRef == UnmatchedRef(referenceNotes, matches)
       IN /\ matchResult' = [matches |-> matches,
                             unmatchedGenerated |-> unmatchedGen,
                             unmatchedReference |-> unmatchedRef]
          /\ report' = ComparisonMetrics(generated, reference, generatedNotes,
                                         referenceNotes, matches, unmatchedGen,
                                         unmatchedRef, config)
    /\ pc' = "done"
    /\ UNCHANGED <<generated, reference, cfg, config, generatedNotes,
                   referenceNotes, gi, unmatchedReference, matches>>
    /\ UNCHANGED <<decodeVars, otherVars>>

Next == SortInputs \/ MatchStep \/ ComputeReport

\* Comparisons of any two files under any of the configurations.
Spec == Init /\ [][Next]_vars

\* Self-comparisons under the default configuration.
SelfSpec == InitSelf /\ [][Next]_vars

\* Comparisons of the scenario notes under the varied configurations.
ConfigSpec == InitConfig /\ [][Next]_vars

\* The notes of the comparisons of rhythms: one shape at 0 s and at 0.1 s.
RhythmNotes ==
    {Zero, <<1, 10>>} \X {[note |-> 60, velocity |-> 80, duration |-> <<1, 10>>]}

\* Any two files of at most MaxRhythmNotes of these notes, no cfg argument.
InitRhythm ==
    /\ \E n \in 0..MaxRhythmNotes : \E f \in [1..n -> RhythmNotes] :
          generated = ProcessedMidiData(NoteList(f))
    /\ \E n \in 0..MaxRhythmNotes : \E f \in [1..n -> RhythmNotes] :
          reference = ProcessedMidiData(NoteList(f))
    /\ cfg = [k \in {} |-> Zero]
    /\ InitCall

\* Comparisons of rhythms under the default configuration.
RhythmSpec == InitRhythm /\ [][Next]_vars

\* The generated files of the comparisons in a row: no note, two notes out
\* of time order, one note.
RepeatGenerated ==
    {<<>>,
     NoteList(<<<<<<1, 20>>, [note |-> 60, velocity |-> 80, duration |-> <<1, 2>>]>>,
                <<Zero, [note |-> 60, velocity |-> 80, duration |-> <<1, 2>>]>>>>),
     NoteList(<<<<<<1, 5>>, [note |-> 62, velocity |-> 70, duration |-> <<1, 4>>]>>>>)}

\* Their reference files: two notes out of time order, one note.
RepeatReference ==
    {NoteList(<<<<<<1, 5>>, [note |-> 62, velocity |-> 70, duration |-> <<1, 4>>]>>,
                <<Zero, [note |-> 60, velocity |-> 80, duration |-> <<1, 2>>]>>>>),
     NoteList(<<<<<<1, 20>>, [note |-> 60, velocity |-> 80, duration |-> <<1, 2>>]>>>>)}

\* Their cfg arguments: none, or a tolerance of 0.05 s and one semitone.
RepeatOverrides ==
    {[k \in {} |-> Zero],
     [timingToleranceSec |-> <<1, 20>>, pitchToleranceSemitones |-> One]}

InitRepeat ==
    /\ \E notes \in RepeatGenerated : generated = ProcessedMidiData(notes)
    /\ \E notes \in RepeatReference : reference = ProcessedMidiData(notes)
    /\ cfg \in RepeatOverrides
    /\ InitCall

\* The caller keeps the report and calls compareMidiData again, on any
\* files and cfg; the locals of the finished call are garbage until
\* SortInputs makes new ones.
CompareAgain ==
    /\ pc = "done"
    /\ Len(returned) + 1 < MaxCompares
    /\ returned' = Append(returned, [generated |-> generated,
                                     reference |-> reference,
                                     cfg |-> cfg, report |-> report])
    /\ \E notes \in RepeatGenerated : generated' = ProcessedMidiData(notes)
    /\ \E notes \in RepeatReference : reference' = ProcessedMidiData(notes)
    /\ cfg' \in RepeatOverrides
    /\ pc' = "sort"
    /\ UNCHANGED <<config, generatedNotes, referenceNotes, gi,
                   unmatchedReference, matches, matchResult, report>>
    /\ UNCHANGED <<decodeVars, sideVars>>

RepeatNext == SortInputs \/ MatchStep \/ ComputeReport \/ CompareAgain

\* Comparisons in a row.
RepeatSpec == InitRepeat /\ [][RepeatNext]_vars

(***************************************************************************)
(* parseMidiData.                                                          *)
(***************************************************************************)
\* No comparison under way.
NoCompare ==
    /\ generated = ProcessedMidiData(<<>>)
    /\ reference = ProcessedMidiData(<<>>)
    /\ cfg = [k \in {} |-> Zero]
    /\ pc = "idle"
    /\ config = defaultConfig
    /\ generatedNotes = <<>>
    /\ referenceNotes = <<>>
    /\ gi = 0
    /\ unmatchedReference = {}
    /\ matches = <<>>
    /\ matchResult = NoReport
    /\ report = NoReport

\* The note lists of one track: the library keeps the notes of a track in
\* time order.
TrackChoices ==
    {tr \in UNION {[1..n -> LibNotes] : n \in 0..MaxTrackNotes} :
        \A i \in 1..Len(tr) : \A j \in i..Len(tr) : Leq(tr[i].time, tr[j].time)}

\* The first call of parseMidiData: on bytes in one of the three carriers,
\* on a string that is not base64, or on an object, null or an array.
DecodeInit ==
    /\ NoCompare
    /\ OthersIdle
    /\ \/ \E kind \in {"string", "Uint8Array", "ArrayBuffer"} :
          \E bytes \in {"smf", "damaged"} :
          \E nt \in 0..MaxTracks : \E tr \in [1..nt -> TrackChoices] :
          \E tempos \in {<<>>, <<90>>} :
             data = DataBytes(kind, kind = "string", bytes,
                              ToneMidi([t \in 1..nt |-> LibTrack(tr[t])], tempos))
       \/ \E kind \in {"string", "Uint8Array", "ArrayBuffer"} :
             data = DataBytes(kind, kind = "string", "noMagic", NoMidi)
       \/ data = DataBytes("string", FALSE, "none", NoMidi)
       \/ \E kind \in {"null", "array"} :
             data = DataObject(kind, 1, FALSE, FALSE, processMidi(NoMidi))
       \/ \E notesIsArray \in BOOLEAN, tracksIsArray \in BOOLEAN :
          \E tr \in TrackChoices :
             data = DataObject("object", 1, notesIsArray, tracksIsArray,
                               processMidi(ToneMidi(<<LibTrack(tr)>>, <<>>)))
    /\ dpc = "call"
    /\ midi = NoMidi
    /\ constructed = FALSE
    /\ thrown = ""
    /\ outcome = Pending
    /\ calls = <<>>

\* The promise settles: the call and its promise are recorded.
Settle(promise) ==
    /\ outcome' = promise
    /\ calls' = Append(calls, [arg |-> data, outcome |-> promise])
    /\ dpc' = "settled"

\* if (typeof data === 'object' && ...) return data
Passthrough ==
    /\ dpc = "call"
    /\ IsProcessed(data)
    /\ Settle([state |-> "fulfilled", ref |-> data.ref, value |-> data.value,
               error |-> ""])
    /\ UNCHANGED <<data, midi, constructed, thrown>>
    /\ UNCHANGED <<compareVars, otherVars>>

\* The if / else if chain that sets midiSource: atob throws on a string
\* that is not base64, the last else throws on any other type.
ToBytes ==
    /\ dpc = "call"
    /\ ~IsProcessed(data)
    /\ IF data.kind = "string"
       THEN IF data.base64
            THEN dpc' = "bytes" /\ thrown' = thrown
            ELSE dpc' = "catch" /\ thrown' = "InvalidCharacterError"
       ELSE IF data.kind \in {"Uint8Array", "ArrayBuffer"}
            THEN dpc' = "bytes" /\ thrown' = thrown
       ELSE dpc' = "catch" /\ thrown' = "Unsupported MIDI data type"
    /\ UNCHANGED <<data, midi, constructed, outcome, calls>>
    /\ UNCHANGED <<compareVars, otherVars>>

\* const midi = new ToneMidi(midiSource), returning
Construct ==
    /\ dpc = "bytes"
    /\ data.bytes \in {"smf", "damaged"}
    /\ midi' = data.file
    /\ constructed' = TRUE
    /\ dpc' = "midi"
    /\ UNCHANGED <<data, thrown, outcome, calls>>
    /\ UNCHANGED <<compareVars, otherVars>>

\* const midi = new ToneMidi(midiSource), throwing
ConstructThrows ==
    /\ dpc = "bytes"
    /\ data.bytes \in {"noMagic", "damaged"}
    /\ constructed' = TRUE
    /\ thrown' = "Bad MIDI file"
    /\ dpc' = "catch"
    /\ UNCHANGED <<data, midi, outcome, calls>>
    /\ UNCHANGED <<compareVars, otherVars>>

\* return this.processMidi(midi)
Process ==
    /\ dpc = "midi"
    /\ Settle([state |-> "fulfilled", ref |-> 10 + Len(calls),
               value |-> processMidi(midi), error |-> ""])
    /\ UNCHANGED <<data, midi, constructed, thrown>>
    /\ UNCHANGED <<compareVars, otherVars>>

\* catch (error) { console.error(...); throw new Error('Invalid MIDI file format') }
Catch ==
    /\ dpc = "catch"
    /\ Settle([state |-> "rejected", ref |-> 0, value |-> processMidi(NoMidi),
               error |-> InvalidFormat])
    /\ UNCHANGED <<data, midi, constructed, thrown>>
    /\ UNCHANGED <<compareVars, otherVars>>

\* The caller passes the decoded result to parseMidiData again.
ParseAgain ==
    /\ dpc = "settled"
    /\ outcome.state = "fulfilled"
    /\ Len(calls) < MaxCalls
    /\ data' = DataObject("object", outcome.ref, TRUE, TRUE, outcome.value)
    /\ dpc' = "call"
    /\ midi' = NoMidi
    /\ constructed' = FALSE
    /\ thrown' = ""
    /\ outcome' = Pending
    /\ UNCHANGED calls
    /\ UNCHANGED <<compareVars, otherVars>>

DecodeNext ==
    \/ Passthrough
    \/ ToBytes
    \/ Construct
    \/ ConstructThrows
    \/ Process
    \/ Catch
    \/ ParseAgain

\* Calls of MidiProcessor.parseMidiData.
DecodeSpec == DecodeInit /\ [][DecodeNext]_vars

(***************************************************************************)
(* validateMidiData.  parseMidiData is an async function without an await: *)
(* the call runs its whole body and hands back a promise, fulfilled or     *)
(* rejected; an error inside it never reaches the caller as an exception.  *)
(***************************************************************************)
\* A call of validateMidiData on a string or an ArrayBuffer.
ValidateInit ==
    /\ NoCompare
    /\ returned = <<>>
    /\ NoNames
    /\ NoUi
    /\ \/ \E kind \in {"string", "ArrayBuffer"} :
          \E bytes \in {"smf", "damaged"} :
          \E nt \in 0..MaxTracks : \E tr \in [1..nt -> TrackChoices] :
          \E tempos \in {<<>>, <<90>>} :
             data = DataBytes(kind, kind = "string", bytes,
                              ToneMidi([t \in 1..nt |-> LibTrack(tr[t])], tempos))
       \/ \E kind \in {"string", "ArrayBuffer"} :
             data = DataBytes(kind, kind = "string", "noMagic", NoMidi)
       \/ data = DataBytes("string", FALSE, "none", NoMidi)
    /\ dpc = "idle"
    /\ midi = NoMidi
    /\ constructed = FALSE
    /\ thrown = ""
    /\ outcome = Pending
    /\ calls = <<>>
    /\ vpc = "check"
    /\ valid = FALSE

\* if (typeof data === 'string') { try { atob(data) } catch { return false } }
\* and, past it, the call this.parseMidiData(data)
ValidateCheck ==
    /\ vpc = "check"
    /\ IF data.kind = "string" /\ ~data.base64
       THEN /\ valid' = FALSE
            /\ vpc' = "returned"
            /\ dpc' = dpc
       ELSE /\ valid' = valid
            /\ vpc' = "parse"
            /\ dpc' = "call"
    /\ UNCHANGED <<data, midi, constructed, thrown, outcome, calls>>
    /\ UNCHANGED besideValidate

\* return true, once the call of parseMidiData has handed back its promise;
\* the promise is dropped, so the outer catch sees no error.
ValidateReturn ==
    /\ vpc = "parse"
    /\ dpc = "settled"
    /\ valid' = TRUE
    /\ vpc' = "returned"
    /\ UNCHANGED <<decodeVars, besideValidate>>

ValidateNext ==
    \/ ValidateCheck
    \/ ToBytes
    \/ Construct
    \/ ConstructThrows
    \/ Process
    \/ Catch
    \/ ValidateReturn

\* Calls of MidiProcessor.validateMidiData.
ValidateSpec == ValidateInit /\ [][ValidateNext]_vars

(***************************************************************************)
(* getNoteName and getMidiNote.  A string is the sequence of its           *)
(* characters.                                                             *)
(***************************************************************************)
\* const noteNames of getNoteName and of getMidiNote
noteNames ==
    <<<<"C">>, <<"C", "#">>, <<"D">>, <<"D", "#">>, <<"E">>, <<"F">>,
      <<"F", "#">>, <<"G">>, <<"G", "#">>, <<"A">>, <<"A", "#">>, <<"B">>>>

DigitChars == <<"0", "1", "2", "3", "4", "5", "6", "7", "8", "9">>

\* The decimal digits of a natural number.
RECURSIVE Decimal(_)
Decimal(n) ==
    IF n < 10 THEN <<DigitChars[n + 1]>>
    ELSE Decimal(n \div 10) \o <<DigitChars[(n % 10) + 1]>>

\* `${n}` for an integer n
TemplateString(n) == IF n < 0 THEN <<"-">> \o Decimal(-n) ELSE Decimal(n)

\* static getNoteName(midiNote)
getNoteName(n) ==
    LET octave == (n \div 12) - 1
        noteIndex == n % 12
    IN noteNames[noteIndex + 1] \o TemplateString(octave)

\* parseInt of a string of decimal digits
RECURSIVE parseInt(_)
parseInt(str) ==
    IF str = <<>> THEN 0
    ELSE 10 * parseInt(SubSeq(str, 1, Len(str) - 1))
         + (CHOOSE d \in 0..9 : DigitChars[d + 1] = str[Len(str)])

\* noteNames.indexOf(note)
indexOf(note) ==
    IF \E i \in 1..Len(noteNames) : noteNames[i] = note
    THEN (CHOOSE i \in 1..Len(noteNames) : noteNames[i] = note) - 1
    ELSE -1

\* static getMidiNote(noteName): the match of /^([A-G]#?)(\d+)$/ , the
\* two errors and the returned number.
getMidiNote(name) ==
    LET sharp == Len(name) >= 2 /\ name[2] = "#"
        note == SubSeq(name, 1, IF sharp THEN 2 ELSE 1)
        octaveStr == SubSeq(name, Len(note) + 1, Len(name))
        match == /\ Len(name) >= 1
                 /\ name[1] \in {"A", "B", "C", "D", "E", "F", "G"}
                 /\ Len(octaveStr) >= 1
                 /\ \A k \in 1..Len(octaveStr) :
                       \E d \in 1..10 : DigitChars[d] = octaveStr[k]
        octave == parseInt(octaveStr)
        noteIndex == indexOf(note)
    IN IF ~match THEN Thrown("Invalid note name")
       ELSE IF noteIndex = -1 THEN Thrown("Invalid note")
       ELSE Returned((octave + 1) * 12 + noteIndex)

\* Any MIDI pitch is about to be named.
NameInit ==
    /\ NoCompare
    /\ NoDecode
    /\ returned = <<>>
    /\ NoValidate
    /\ NoUi
    /\ npc = "name"
    /\ midiNote \in 0..MaxPitch
    /\ noteName = <<>>
    /\ parsed = Returned(0)

\* MidiProcessor.getNoteName(midiNote)
NamePitch ==
    /\ npc = "name"
    /\ noteName' = getNoteName(midiNote)
    /\ npc' = "parse"
    /\ UNCHANGED <<midiNote, parsed>>
    /\ UNCHANGED besideNames

\* MidiProcessor.getMidiNote(noteName) on the name just made
ParseName ==
    /\ npc = "parse"
    /\ parsed' = getMidiNote(noteName)
    /\ npc' = "done"
    /\ UNCHANGED <<midiNote, noteName>>
    /\ UNCHANGED besideNames

NameNext == NamePitch \/ ParseName

\* Pitches named and parsed back.
NameSpec == NameInit /\ [][NameNext]_vars

(***************************************************************************)
(* The Redux slice transcription and the hook useTranscription.  The       *)
(* callback of setInterval is async: a tick starts a callback whatever     *)
(* the earlier callbacks are waiting for, and clearInterval stops the      *)
(* ticks, not the callbacks under way.                                     *)
(***************************************************************************)
\* The action creators of transcriptionSlice.
setAudioFile(file) == [type |-> "setAudioFile", payload |-> file]
setTranscribing(flag) == [type |-> "setTranscribing", payload |-> flag]
setMidiData(result) == [type |-> "setMidiData", payload |-> result]
setError(message) == [type |-> "setError", payload |-> message]

\* The reducers of transcriptionSlice.
Reduce(state, action) ==
    CASE action.type = "setAudioFile" ->
            [state EXCEPT !.audioFile = action.payload, !.error = ""]
      [] action.type = "setTranscribing" ->
            [state EXCEPT !.isTranscribing = action.payload]
      [] action.type = "setMidiData" ->
            [state EXCEPT !.midiData = action.payload, !.isTranscribing = FALSE]
      [] action.type = "setError" ->
            [state EXCEPT !.error = action.payload, !.isTranscribing = FALSE]

RECURSIVE Reduced(_, _)
Reduced(state, actions) ==
    IF actions = <<>> THEN state
    ELSE Reduced(Reduce(state, Head(actions)), Tail(actions))

\* dispatch(...) of each of the actions in turn; the log notes whether
\* cancelTranscription had finished by then.
Dispatch(actions) ==
    /\ store' = Reduced(store, actions)
    /\ dispatched' = dispatched \o
          [i \in 1..Len(actions) |->
              [type |-> actions[i].type, payload |-> actions[i].payload,
               afterCancel |-> cpc = "finished"]]

\* The hook is mounted, with or without an audio file in the store.
TranscribeInit ==
    /\ NoCompare
    /\ NoDecode
    /\ returned = <<>>
    /\ NoValidate
    /\ NoNames
    /\ NoUpload
    /\ \E file \in {NoFile, File("a.wav", 1000, "audio/wav")} :
          store = [initialState EXCEPT !.audioFile = file]
    /\ dispatched = <<>>
    /\ NoTranscription

\* startTranscription up to await api.uploadAndTranscribe(...)
StartTranscription ==
    /\ tpc = "idle"
    /\ IF store.audioFile = NoFile
       THEN /\ Dispatch(<<setError("No audio file selected")>>)
            /\ tpc' = "returned"
       ELSE /\ Dispatch(<<setTranscribing(TRUE)>>)
            /\ tpc' = "uploading"
    /\ UNCHANGED <<transcriptionId, pollingIntervalRef, polls, job, cpc>>
    /\ UNCHANGED besideTranscription

\* The upload settles: setTranscriptionId and startPolling, or the catch
\* block of startTranscription.
UploadSettles ==
    /\ tpc = "uploading"
    /\ \/ /\ transcriptionId' = 1
          /\ pollingIntervalRef' = 1
          /\ job' = "processing"
          /\ UNCHANGED storeVars
       \/ /\ Dispatch(<<setError("Failed to start transcription"),
                         setTranscribing(FALSE)>>)
          /\ UNCHANGED <<transcriptionId, pollingIntervalRef, job>>
    /\ tpc' = "returned"
    /\ UNCHANGED <<polls, cpc>>
    /\ UNCHANGED besideTranscription

\* The interval fires: the callback asks for the status.
PollTick ==
    /\ pollingIntervalRef # 0
    /\ Len(polls) < MaxPolls
    /\ polls' = Append(polls, "status")
    /\ UNCHANGED <<tpc, transcriptionId, pollingIntervalRef, job, cpc>>
    /\ UNCHANGED storeVars
    /\ UNCHANGED besideTranscription

\* The server finishes the transcription, with or without a result.
ServerSettles ==
    /\ job = "processing"
    /\ job' \in {"completed", "failed"}
    /\ UNCHANGED <<tpc, transcriptionId, pollingIntervalRef, polls, cpc>>
    /\ UNCHANGED storeVars
    /\ UNCHANGED besideTranscription

\* catch (error) of the interval callback
PollCatch ==
    /\ pollingIntervalRef' = 0
    /\ Dispatch(<<setError("Failed to get transcription status"),
                  setTranscribing(FALSE)>>)
    /\ UNCHANGED transcriptionId

\* await api.getTranscriptionStatus(id) settles in the k-th callback: the
\* status of the job, or an error of the request.
StatusSettles ==
    \E k \in 1..Len(polls) :
        /\ polls[k] = "status"
        /\ \E status \in {"error"} \cup ({job} \cap {"processing", "completed", "failed"}) :
              CASE status = "processing" ->
                      /\ polls' = [polls EXCEPT ![k] = "done"]
                      /\ UNCHANGED <<transcriptionId, pollingIntervalRef>>
                      /\ UNCHANGED storeVars
                [] status = "completed" ->
                      /\ polls' = [polls EXCEPT ![k] = "result"]
                      /\ UNCHANGED <<transcriptionId, pollingIntervalRef>>
                      /\ UNCHANGED storeVars
                [] status \in {"failed", "error"} ->
                      /\ polls' = [polls EXCEPT ![k] = "done"]
                      /\ PollCatch
        /\ UNCHANGED <<tpc, job, cpc>>
        /\ UNCHANGED besideTranscription

\* await api.getTranscriptionResult(id) settles in the k-th callback:
\* handleTranscriptionComplete on a result or on a response without one,
\* or the catch block on an error of the request.
ResultSettles ==
    \E k \in 1..Len(polls) :
        /\ polls[k] = "result"
        /\ polls' = [polls EXCEPT ![k] = "done"]
        /\ \/ /\ pollingIntervalRef' = 0
              /\ Dispatch(<<setMidiData("result"), setTranscribing(FALSE)>>)
              /\ transcriptionId' = 0
           \/ /\ pollingIntervalRef' = 0
              /\ Dispatch(<<setError("Transcription failed"),
                            setTranscribing(FALSE)>>)
              /\ transcriptionId' = 0
           \/ PollCatch
        /\ UNCHANGED <<tpc, job, cpc>>
        /\ UNCHANGED besideTranscription

\* The lines of cancelTranscription after the request.
CancelTail ==
    /\ pollingIntervalRef' = 0
    /\ Dispatch(<<setTranscribing(FALSE)>>)
    /\ transcriptionId' = 0
    /\ cpc' = "finished"

\* cancelTranscription is called while the store says isTranscribing: with
\* a transcriptionId it waits for api.cancelTranscription, without one it
\* runs to its end.
CancelTranscription ==
    /\ cpc = "idle"
    /\ store.isTranscribing
    /\ IF transcriptionId # 0
       THEN /\ cpc' = "awaiting"
            /\ UNCHANGED <<transcriptionId, pollingIntervalRef>>
            /\ UNCHANGED storeVars
       ELSE CancelTail
    /\ UNCHANGED <<tpc, polls, job>>
    /\ UNCHANGED besideTranscription

\* await api.cancelTranscription(transcriptionId) settles, the server
\* having dropped the job or not.
CancelSettles ==
    /\ cpc = "awaiting"
    /\ job' \in {job} \cup (IF job = "processing" THEN {"cancelled"} ELSE {})
    /\ CancelTail
    /\ UNCHANGED <<tpc, polls>>
    /\ UNCHANGED besideTranscription

TranscribeNext ==
    \/ StartTranscription
    \/ UploadSettles
    \/ PollTick
    \/ ServerSettles
    \/ StatusSettles
    \/ ResultSettles
    \/ CancelTranscription
    \/ CancelSettles

\* One transcription started through useTranscription.
TranscribeSpec == TranscribeInit /\ [][TranscribeNext]_vars

(***************************************************************************)
(* AudioUploader.  The simulated upload is an interval of 200 ms whose     *)
(* callback raises uploadProgress by 10 and, once it finds 100, clears     *)
(* itself and dispatches setAudioFile(file).                               *)
(***************************************************************************)
\* const maxSize of handleFileUpload
maxSize == 50 * 1024 * 1024

\* const validTypes of handleFileUpload
validTypes == {"audio/wav", "audio/mp3", "audio/m4a", "audio/flac", "audio/ogg"}

\* The files dropped: all of a type audio/* , which is what useDropzone
\* lets through; one of the largest size allowed, one a byte larger, one
\* of a type that is not listed.
DroppedFiles ==
    {File("a.wav", 1000, "audio/wav"),
     File("b.flac", maxSize, "audio/flac"),
     File("c.wav", maxSize + 1, "audio/wav"),
     File("d.mp3", 1000, "audio/mpeg")}

\* The messages of the two rejections.
TooLarge == "File size must be less than 50MB"
NotAudio == "Please upload a valid audio file (WAV, MP3, M4A, FLAC, OGG)"

\* How many entries of the log satisfy the test.
Rejections ==
    Cardinality({i \in 1..Len(dispatched) : dispatched[i].type = "setError"})

Removals ==
    Cardinality({i \in 1..Len(dispatched) :
                    /\ dispatched[i].type = "setAudioFile"
                    /\ dispatched[i].payload = NoFile})

\* The component is mounted.
UploadInit ==
    /\ NoCompare
    /\ NoDecode
    /\ returned = <<>>
    /\ NoValidate
    /\ NoNames
    /\ NoUi

\* onDrop and handleFileUpload(file)
DropFile ==
    /\ Len(intervals) + Rejections < MaxDrops
    /\ \E file \in DroppedFiles :
          /\ acceptedFiles' = <<file>>
          /\ IF file.size > maxSize
             THEN /\ Dispatch(<<setError(TooLarge)>>)
                  /\ UNCHANGED <<uploadProgress, isUploading, intervals>>
             ELSE IF file.type \notin validTypes
             THEN /\ Dispatch(<<setError(NotAudio)>>)
                  /\ UNCHANGED <<uploadProgress, isUploading, intervals>>
             ELSE /\ isUploading' = TRUE
                  /\ uploadProgress' = 0
                  /\ intervals' = Append(intervals, [file |-> file, running |-> TRUE])
                  /\ UNCHANGED storeVars
    /\ removedSince' = FALSE
    /\ UNCHANGED besideUpload

\* A tick of the interval of the i-th upload: the updater passed to
\* setUploadProgress.
UploadTick ==
    \E i \in 1..Len(intervals) :
        /\ intervals[i].running
        /\ IF uploadProgress >= 100
           THEN /\ intervals' = [intervals EXCEPT ![i].running = FALSE]
                /\ isUploading' = FALSE
                /\ Dispatch(<<setAudioFile(intervals[i].file)>>)
                /\ uploadProgress' = 100
           ELSE /\ uploadProgress' = uploadProgress + 10
                /\ UNCHANGED <<isUploading, intervals>>
                /\ UNCHANGED storeVars
        /\ UNCHANGED <<acceptedFiles, removedSince>>
        /\ UNCHANGED besideUpload

\* handleRemoveFile, from the button shown while a file is selected
RemoveFile ==
    /\ acceptedFiles # <<>>
    /\ Removals < MaxRemoves
    /\ Dispatch(<<setAudioFile(NoFile)>>)
    /\ uploadProgress' = 0
    /\ isUploading' = FALSE
    /\ removedSince' = TRUE
    /\ UNCHANGED <<intervals, acceptedFiles>>
    /\ UNCHANGED besideUpload

UploadNext == DropFile \/ UploadTick \/ RemoveFile

\* Files dropped on AudioUploader and removed.
UploadSpec == UploadInit /\ [][UploadNext]_vars

(***************************************************************************)
(* Properties.                                                             *)
(***************************************************************************)
Done == pc = "done"

\* The ids of a note list.
Ids(notes) == {notes[k].id : k \in 1..Len(notes)}

\* gen and ref are within both tolerances of configuration c.
WithinTolerances(gen, ref, c) ==
    /\ Leq(Abs(Sub(gen.startTime, ref.startTime)), c.timingToleranceSec)
    /\ Leq(Abs(Sub(Num(gen.note), Num(ref.note))), c.pitchToleranceSemitones)

\* C1: the returned match list is a partial injection: no generated id and
\* no reference id occurs in two of its NoteMatches.
C1_PartialInjection ==
    Done =>
        \A i, j \in 1..Len(report.matches) :
            i # j =>
                /\ report.matches[i].generated.id # report.matches[j].generated.id
                /\ report.matches[i].reference.id # report.matches[j].reference.id

\* C1 witness: two matches were returned, and the reference note of the
\* first was within both tolerances of the second generated note too.
C1_Witness ==
    /\ Done
    /\ Len(report.matches) = 2
    /\ WithinTolerances(report.matches[2].generated,
                        report.matches[1].reference, config)

\* C2: matchedCount + unmatchedGenerated is the number of generated notes,
\* matchedCount + unmatchedReference the number of reference notes, and the
\* unmatched lists hold exactly the input notes that occur in no match.
C2_Counts ==
    Done =>
        LET ms == matchResult.matches
            inMatchGen == {ms[k].generated : k \in 1..Len(ms)}
            inMatchRef == {ms[k].reference : k \in 1..Len(ms)}
            ug == matchResult.unmatchedGenerated
            ur == matchResult.unmatchedReference
            Range(q) == {q[k] : k \in 1..Len(q)}
        IN /\ report.matchedCount + report.unmatchedGenerated = Len(generated.notes)
           /\ report.matchedCount + report.unmatchedReference = Len(reference.notes)
           /\ report.matchedCount = Len(ms)
           /\ report.unmatchedGenerated = Len(ug)
           /\ report.unmatchedReference = Len(ur)
           /\ Range(ug) = Range(generated.notes) \ inMatchGen
           /\ Range(ur) = Range(reference.notes) \ inMatchRef
           /\ Cardinality(Range(ug)) = Len(ug)
           /\ Cardinality(Range(ur)) = Len(ur)

\* C2 witness: a comparison that matched a note and left a note unmatched
\* on each side.
C2_Witness ==
    /\ Done
    /\ report.matchedCount >= 1
    /\ report.unmatchedGenerated >= 1
    /\ report.unmatchedReference >= 1

\* C3: every recorded NoteMatch is within the timing tolerance and within
\* the pitch tolerance, in its recorded errors and in its two notes.
C3_ToleranceGate ==
    \A k \in 1..Len(matches) :
        /\ Leq(matches[k].timingError, config.timingToleranceSec)
        /\ Leq(matches[k].pitchError, config.pitchToleranceSemitones)
        /\ WithinTolerances(matches[k].generated, matches[k].reference, config)

\* C3 witness: a match exactly at the timing tolerance was recorded while a
\* generated note stayed unmatched next to a reference note that nobody
\* consumed, within the timing tolerance but a semitone off.
C3_Witness ==
    /\ Done
    /\ \E k \in 1..Len(matches) :
          /\ matches[k].timingError = config.timingToleranceSec
          /\ Gt(matches[k].timingError, Zero)
    /\ \E g \in 1..Len(matchResult.unmatchedGenerated) :
       \E r \in 1..Len(matchResult.unmatchedReference) :
          LET gen == matchResult.unmatchedGenerated[g]
              ref == matchResult.unmatchedReference[r]
          IN /\ Leq(Abs(Sub(gen.startTime, ref.startTime)), config.timingToleranceSec)
             /\ gen.note # ref.note

\* The position of the note with the given id in a note list.
PositionOf(notes, id) == CHOOSE k \in 1..Len(notes) : notes[k].id = id

\* The ids of the reference notes consumed by the generated notes that were
\* processed before the one at position k of generatedNotes.
ConsumedBefore(k) ==
    {matches[m].reference.id :
        m \in {n \in 1..Len(matches) :
                  PositionOf(generatedNotes, matches[n].generated.id) < k}}

\* The positions in referenceNotes of the candidates of the generated note
\* at position k at its turn: not consumed before, within both tolerances.
Candidates(k) ==
    {j \in 1..Len(referenceNotes) :
        /\ referenceNotes[j].id \notin ConsumedBefore(k)
        /\ WithinTolerances(generatedNotes[k], referenceNotes[j], config)}

\* 2.0 * |dTime| + 0.1 * |dPitch| + 0.5 * |dDuration|
Cost(gen, ref) ==
    LET dt == Abs(Sub(gen.startTime, ref.startTime))
        dp == Abs(Sub(Num(gen.note), Num(ref.note)))
        dd == Abs(Sub(gen.duration, ref.duration))
    IN Add(Add(Add(dt, dt), Div(dp, Num(10))), Div(dd, Num(2)))

\* The earliest candidate of minimal cost of the generated note at k.
BestCandidate(k) ==
    CHOOSE j \in Candidates(k) :
        \A i \in Candidates(k) :
            \/ Lt(Cost(generatedNotes[k], referenceNotes[j]),
                  Cost(generatedNotes[k], referenceNotes[i]))
            \/ /\ Cost(generatedNotes[k], referenceNotes[j])
                    = Cost(generatedNotes[k], referenceNotes[i])
               /\ j <= i

\* The match of the generated note at position k is the m-th match.
IsMatchOf(m, k) == matches[m].generated.id = generatedNotes[k].id

\* C4: the generated notes are processed in non-decreasing startTime order
\* (a stable rearrangement of the input), the matches are recorded in that
\* order, and in the returned result each generated note is matched to the
\* earliest cheapest reference note that was unconsumed and in tolerance
\* at its turn, and left unmatched only when there was none.
C4_GreedyChoice ==
    pc # "sort" =>
        /\ Len(generatedNotes) = Len(generated.notes)
        /\ {generatedNotes[k] : k \in 1..Len(generatedNotes)}
              = {generated.notes[k] : k \in 1..Len(generated.notes)}
        /\ \A k \in 1..(Len(generatedNotes) - 1) :
              /\ Leq(generatedNotes[k].startTime, generatedNotes[k + 1].startTime)
              /\ generatedNotes[k].startTime = generatedNotes[k + 1].startTime
                    => generatedNotes[k].id < generatedNotes[k + 1].id
        /\ \A m \in 1..(Len(matches) - 1) :
              PositionOf(generatedNotes, matches[m].generated.id)
                 < PositionOf(generatedNotes, matches[m + 1].generated.id)
        /\ \A m \in 1..Len(matches) :
              PositionOf(generatedNotes, matches[m].generated.id) < gi
        /\ \A k \in 1..(IF Done THEN Len(generatedNotes) ELSE 0) :
              IF Candidates(k) = {}
              THEN \A m \in 1..Len(matches) : ~IsMatchOf(m, k)
              ELSE \E m \in 1..Len(matches) :
                      /\ IsMatchOf(m, k)
                      /\ matches[m].reference = referenceNotes[BestCandidate(k)]

\* C4 witness: the input was not in chronological order, one generated
\* note took a cheaper candidate that is not its first one, another one
\* had no candidate left and stayed unmatched.
C4_Witness ==
    /\ Done
    /\ generated.notes # generatedNotes
    /\ \E k \in 1..Len(generatedNotes) :
          /\ Cardinality(Candidates(k)) >= 2
          /\ \E i \in Candidates(k) : i < BestCandidate(k)
    /\ \E k \in 1..Len(generatedNotes) :
          /\ Candidates(k) = {}
          /\ \A m \in 1..Len(matches) : ~IsMatchOf(m, k)

\* C5: a generated note ends unmatched only because every reference note
\* within its tolerances was consumed by a generated note processed before
\* it; the matcher never looks for another assignment.
C5_StolenByEarlier ==
    Done =>
        \A k \in 1..Len(generatedNotes) :
            (\A m \in 1..Len(matches) : ~IsMatchOf(m, k)) =>
                \A j \in 1..Len(referenceNotes) :
                    WithinTolerances(generatedNotes[k], referenceNotes[j], config) =>
                        \E m \in 1..Len(matches) :
                            /\ matches[m].reference.id = referenceNotes[j].id
                            /\ PositionOf(generatedNotes, matches[m].generated.id) < k

\* C5 witness: two generated and two reference notes; the earlier
\* generated note took the reference note that is the only one within the
\* tolerances of the later one, which is reported unmatched, although
\* giving the earlier note the other reference note matches both.
C5_Witness ==
    /\ Done
    /\ Len(generatedNotes) = 2
    /\ Len(referenceNotes) = 2
    /\ report.matchedCount = 1
    /\ report.unmatchedGenerated = 1
    /\ matches[1].generated = generatedNotes[1]
    /\ \E j \in 1..2 :
          /\ matches[1].reference = referenceNotes[j]
          /\ WithinTolerances(generatedNotes[2], referenceNotes[j], config)
          /\ ~WithinTolerances(generatedNotes[2], referenceNotes[3 - j], config)
          /\ WithinTolerances(generatedNotes[1], referenceNotes[3 - j], config)

\* The twelve scores of a report.
Scores ==
    {"precision", "recall", "noteAccuracy", "timingAccuracy", "rhythmAccuracy",
     "velocityAccuracy", "durationAccuracy", "pitchClassSimilarity",
     "densitySimilarity", "polyphonySimilarity", "rangeOverlap", "overallScore"}

\* C6: every score of every report is a number of [0, 1].
C6_ScoresInUnit == Done => \A k \in Scores : InUnit(report[k])

\* The sequence compared with itself has notes k and l alike in start
\* time, pitch and duration.
Alike(k, l) ==
    /\ generated.notes[k].startTime = generated.notes[l].startTime
    /\ generated.notes[k].note = generated.notes[l].note
    /\ generated.notes[k].duration = generated.notes[l].duration

\* C7: comparing a note sequence with an exact copy of itself under the
\* default configuration matches every note: matchedCount is the number
\* of notes and nothing is left unmatched on either side.
C7_SelfMatchesAll ==
    Done =>
        /\ report.matchedCount = Len(generated.notes)
        /\ report.unmatchedGenerated = 0
        /\ report.unmatchedReference = 0
        /\ \A m \in 1..Len(matches) : matches[m].generated = matches[m].reference

\* C7 witness: a self-comparison of a sequence in which two notes share
\* start time, pitch and duration, and a third one differs, has returned.
C7_Witness ==
    /\ Done
    /\ reference = generated
    /\ Len(generated.notes) = 3
    /\ report.matchedCount = 3
    /\ \E k, l \in 1..3 : k # l /\ Alike(k, l)
    /\ \E k, l \in 1..3 : ~Alike(k, l)

\* The pitch classes of the sequence compared with itself.
PitchClasses == {generated.notes[k].note % 12 : k \in 1..Len(generated.notes)}

\* The five accuracies of the self-comparison law.
Accuracies ==
    {"noteAccuracy", "timingAccuracy", "velocityAccuracy", "durationAccuracy",
     "pitchClassSimilarity"}

\* C8 as stated: a self-comparison yields noteAccuracy, timingAccuracy,
\* velocityAccuracy, durationAccuracy and pitchClassSimilarity all equal
\* to 1.
C8_Original == Done => \A k \in Accuracies : report[k] = One

\* C8, amended: a self-comparison of a non-empty sequence yields
\* noteAccuracy = timingAccuracy = velocityAccuracy = durationAccuracy = 1
\* and a pitchClassSimilarity that is 1 when all notes share one pitch
\* class and otherwise 1 or one rounding step below 1; a self-comparison
\* of the empty sequence yields 0 for all five.
C8_SelfAccuracies ==
    Done =>
        IF Len(generated.notes) = 0
        THEN \A k \in Accuracies : report[k] = Zero
        ELSE /\ \A k \in Accuracies \ {"pitchClassSimilarity"} : report[k] = One
             /\ report.pitchClassSimilarity \in {One, TruncateBelow(One)}
             /\ Cardinality(PitchClasses) = 1 => report.pitchClassSimilarity = One

\* C8 witness: a self-comparison of notes of two pitch classes has
\* returned with the four accuracies at 1 and the pitch-class similarity
\* one rounding step below 1.
C8_Witness ==
    /\ Done
    /\ reference = generated
    /\ Cardinality(PitchClasses) = 2
    /\ report.noteAccuracy = One
    /\ report.timingAccuracy = One
    /\ report.pitchClassSimilarity = TruncateBelow(One)

\* C9: a self-comparison of a non-empty sequence yields rangeOverlap = 1,
\* also when all its notes have the same pitch.
C9_SelfRangeOverlap ==
    (Done /\ Len(generated.notes) > 0) => report.rangeOverlap = One

\* C10: a self-comparison of three or more notes whose pitch-class
\* similarity is exactly 1 yields overallScore = 1 under the default
\* weights, also when the onsets are evenly spaced.
C10_SelfOverall ==
    (Done /\ Len(generated.notes) >= 3 /\ report.pitchClassSimilarity = One)
        => report.overallScore = One

\* C11: a comparison of a non-empty generated sequence with an empty
\* reference sequence returns a report with recall = 0, matchedCount = 0,
\* noteAccuracy = 0 and every generated note unmatched.
C11_EmptyReference ==
    (Done /\ Len(generated.notes) > 0 /\ Len(reference.notes) = 0) =>
        /\ report.returned
        /\ report.recall = Zero
        /\ report.matchedCount = 0
        /\ report.noteAccuracy = Zero
        /\ report.unmatchedGenerated = Len(generated.notes)
        /\ report.unmatchedReference = 0
        /\ \A k \in Scores : InUnit(report[k])

\* C11 witness: a comparison of two generated notes with an empty
\* reference has returned its report.
C11_Witness ==
    /\ Done
    /\ Len(generated.notes) = 2
    /\ Len(reference.notes) = 0
    /\ report.returned
    /\ report.unmatchedGenerated = 2

\* The mean over the matches of |generated.startTime - reference.startTime|.
MeanTimingError ==
    Div(Sum([m \in 1..Len(matches) |->
                Abs(Sub(matches[m].generated.startTime,
                        matches[m].reference.startTime))]),
        Num(Len(matches)))

\* The scenario: one generated note (60, start 0, duration 0.5, velocity
\* 80), one reference note alike but for its start 0.05, tolerance 0.1 s.
Scenario ==
    /\ generated.notes =
          NoteList(<<<<Zero, [note |-> 60, velocity |-> 80, duration |-> <<1, 2>>]>>>>)
    /\ reference.notes =
          NoteList(<<<<<<1, 20>>, [note |-> 60, velocity |-> 80, duration |-> <<1, 2>>]>>>>)
    /\ MergeConfig(cfg).timingToleranceSec = <<1, 10>>

\* C12: the scenario yields exactly one match with timingError 0.05,
\* timingAccuracy 0.5 and precision = recall = noteAccuracy = 1; in every
\* report timingAccuracy is clamp01(1 - meanTimingError / timingTolerance)
\* over the matches, and 0 without a match.
C12_TimingAccuracy ==
    Done =>
        /\ Scenario =>
              /\ report.matchedCount = 1
              /\ Len(report.matches) = 1
              /\ report.matches[1].timingError = <<1, 20>>
              /\ report.timingAccuracy = <<1, 2>>
              /\ report.precision = One
              /\ report.recall = One
              /\ report.noteAccuracy = One
        /\ report.timingAccuracy =
              IF Len(matches) = 0 THEN Zero
              ELSE clamp01(Sub(One, Div(MeanTimingError, config.timingToleranceSec)))

\* C12 witness: the scenario has returned its report with one match and
\* timingAccuracy 0.5.
C12_Witness ==
    /\ Done
    /\ Scenario
    /\ report.matchedCount = 1
    /\ report.timingAccuracy = <<1, 2>>

\* The pitch classes (pitch mod 12) that occur in a note list.
PitchClassesOf(notes) == {notes[k].note % 12 : k \in 1..Len(notes)}

\* C13: when the two full note sequences share no pitch class, and in
\* particular when one of them is empty, pitchClassSimilarity is 0.
C13_DisjointPitchClasses ==
    (Done /\ PitchClassesOf(generated.notes) \cap PitchClassesOf(reference.notes) = {})
        => report.pitchClassSimilarity = Zero

\* C13 witness: a comparison of two non-empty sequences without a common
\* pitch class has returned with pitchClassSimilarity 0.
C13_Witness ==
    /\ Done
    /\ Len(generated.notes) = 2
    /\ Len(reference.notes) > 0
    /\ PitchClassesOf(generated.notes) \cap PitchClassesOf(reference.notes) = {}
    /\ report.pitchClassSimilarity = Zero

\* The argument is an object with a notes array and a tracks array.
NormalizedShape(d) == d.kind = "object" /\ d.notesIsArray /\ d.tracksIsArray

\* C14: parseMidiData called with an object that has a notes array and a
\* tracks array fulfils its promise with that very object, unchanged and
\* without constructing a Midi; called again on any fulfilled result it
\* returns that result again.
C14_Passthrough ==
    /\ \A i \in 1..Len(calls) :
          NormalizedShape(calls[i].arg) =>
              /\ calls[i].outcome.state = "fulfilled"
              /\ calls[i].outcome.ref = calls[i].arg.ref
              /\ calls[i].outcome.value = calls[i].arg.value
    /\ \A i \in 2..Len(calls) :
          /\ calls[i - 1].outcome.state = "fulfilled"
          /\ calls[i].outcome = calls[i - 1].outcome
    /\ (NormalizedShape(data) /\ dpc # "idle") =>
          /\ ~constructed
          /\ midi = NoMidi
          /\ dpc \in {"call", "settled"}

\* C14 witness: an object with both arrays and a note was passed through,
\* and so was the result when it was passed in again.
C14_Witness ==
    /\ Len(calls) = 2
    /\ calls[1].arg.kind = "object"
    /\ calls[1].arg.ref = 1
    /\ Len(calls[1].arg.value.notes) > 0
    /\ calls[2].outcome.state = "fulfilled"
    /\ calls[2].outcome.ref = 1

\* The number of notes in the tracks of a Midi.
RECURSIVE NotesInTracks(_, _)
NotesInTracks(m, t) ==
    IF t = 0 THEN 0 ELSE NotesInTracks(m, t - 1) + Len(m.tracks[t].notes)

MetricKeys ==
    {"noteAccuracy", "timingAccuracy", "rhythmAccuracy", "velocityAccuracy",
     "durationAccuracy", "pitchClassSimilarity", "densitySimilarity",
     "polyphonySimilarity", "rangeOverlap"}

\* The sum of the weights w[k] over a set of keys.
RECURSIVE TotalWeight(_, _)
TotalWeight(w, keys) ==
    IF keys = {} THEN Zero
    ELSE LET k == CHOOSE x \in keys : TRUE
         IN Add(w[k], TotalWeight(w, keys \ {k}))

\* The sum of w[k] * r[k] over a set of keys.
RECURSIVE WeightedTotal(_, _, _)
WeightedTotal(w, r, keys) ==
    IF keys = {} THEN Zero
    ELSE LET k == CHOOSE x \in keys : TRUE
         IN Add(Mul(w[k], r[k]), WeightedTotal(w, r, keys \ {k}))

\* C16: overallScore is the weighted mean of the reported metrics over the
\* keys of the weight map that name a computed metric, whatever other
\* keys the map holds and whatever metrics it leaves out, and 0 when
\* those weights do not add up to a positive number.
C16_WeightedAverage ==
    Done =>
        LET w == config.overallWeights
            keys == DOMAIN w \cap MetricKeys
            total == TotalWeight(w, keys)
        IN report.overallScore =
              IF Gt(total, Zero) THEN Div(WeightedTotal(w, report, keys), total)
              ELSE Zero

\* C16 witness: under a weight map of noteAccuracy and of precision, which
\* is no computed metric, a report with a match has returned whose
\* overallScore is its noteAccuracy while its timingAccuracy differs.
C16_Witness ==
    /\ Done
    /\ DOMAIN config.overallWeights = {"noteAccuracy", "precision"}
    /\ report.matchedCount > 0
    /\ report.overallScore = report.noteAccuracy
    /\ report.timingAccuracy # report.noteAccuracy

\* max(1, n) for a count n.
AtLeastOne(n) == IF n > 1 THEN n ELSE 1

\* C17: precision is matched / max(1, number of generated notes), recall
\* is matched / max(1, number of reference notes), and noteAccuracy is
\* their harmonic mean 2pr / (p + r), 0 when p + r = 0.
C17_PrecisionRecallF1 ==
    Done =>
        LET p == Rat(Len(matches), AtLeastOne(Len(generated.notes)))
            r == Rat(Len(matches), AtLeastOne(Len(reference.notes)))
        IN /\ report.precision = p
           /\ report.recall = r
           /\ report.noteAccuracy =
                 IF Add(p, r) = Zero THEN Zero
                 ELSE Div(Mul(Num(2), Mul(p, r)), Add(p, r))

\* C17 witness: one match for one generated and two reference notes:
\* precision 1, recall 1/2, noteAccuracy 2/3.
C17_Witness ==
    /\ Done
    /\ report.precision = One
    /\ report.recall = <<1, 2>>
    /\ report.noteAccuracy = <<2, 3>>

\* The mean over the matches of |generated.duration - reference.duration|.
MeanAbsDurationError ==
    Div(Sum([m \in 1..Len(matches) |->
                Abs(Sub(matches[m].generated.duration,
                        matches[m].reference.duration))]),
        Num(Len(matches)))

\* The mean of the matched reference notes' durations.
MeanReferenceDuration ==
    Div(Sum([m \in 1..Len(matches) |-> matches[m].reference.duration]),
        Num(Len(matches)))

\* The mean of the matched reference notes' durations, each raised to at
\* least 0.05.
MeanFlooredReferenceDuration ==
    Div(Sum([m \in 1..Len(matches) |->
                IF Lt(matches[m].reference.duration, <<1, 20>>) THEN <<1, 20>>
                ELSE matches[m].reference.duration]),
        Num(Len(matches)))

\* C18 as stated: durationAccuracy is clamp01(1 - meanAbsDurationError /
\* meanReferenceDuration) over the matches, the latter the mean of the
\* matched reference notes' durations, and 0 without a match.
C18_Original ==
    Done =>
        report.durationAccuracy =
            IF Len(matches) = 0 THEN Zero
            ELSE clamp01(Sub(One, Div(MeanAbsDurationError, MeanReferenceDuration)))

\* C18, amended: durationAccuracy is clamp01(1 - meanAbsDurationError /
\* meanReferenceDuration) over the matches, where each matched reference
\* duration enters the mean as max(0.05, duration), and 0 without a match.
C18_DurationAccuracy ==
    Done =>
        report.durationAccuracy =
            IF Len(matches) = 0 THEN Zero
            ELSE clamp01(Sub(One, Div(MeanAbsDurationError,
                                      MeanFlooredReferenceDuration)))

\* C18 witness: a report over two matches, one of them with a reference
\* note shorter than 0.05 s, whose durationAccuracy differs from the value
\* of the unfloored mean.
C18_Witness ==
    /\ Done
    /\ Len(matches) = 2
    /\ \E m \in 1..2 : Lt(matches[m].reference.duration, <<1, 20>>)
    /\ InUnit(report.durationAccuracy)
    /\ report.durationAccuracy
          # clamp01(Sub(One, Div(MeanAbsDurationError, MeanReferenceDuration)))

\* C19: every recorded match carries a matchQuality that is a number of
\* [0, 1].
C19_MatchQualityInUnit ==
    \A m \in 1..Len(matches) : InUnit(matches[m].matchQuality)

\* A tolerance or a weight of the merged configuration is negative.
OutOfRange(c) ==
    \/ Lt(c.timingToleranceSec, Zero)
    \/ Lt(c.pitchToleranceSemitones, Zero)
    \/ \E k \in DOMAIN c.overallWeights : Lt(c.overallWeights[k], Zero)
    \/ \E k \in DOMAIN c.matchWeights : Lt(c.matchWeights[k], Zero)

\* C20: a comparison whose configuration holds a negative tolerance or a
\* negative weight returns no report.
C20_ConfigRejected == (Done /\ OutOfRange(config)) => ~report.returned

\* C21: no ratio of the computation divides by zero: every score of a
\* finished report and the matchQuality of every match is a finite number,
\* whatever the inputs and the timing tolerance.
C21_NoDivisionByZero ==
    Done => /\ \A k \in Scores : isFinite(report[k])
            /\ \A m \in 1..Len(matches) : isFinite(matches[m].matchQuality)

\* C22: the flat notes list of every decoded result is in chronological
\* order: startTime never decreases along the list.
C22_Chronological ==
    \A c \in 1..Len(calls) :
        calls[c].outcome.state = "fulfilled" =>
            LET notes == calls[c].outcome.value.notes
            IN \A i \in 1..Len(notes) : \A j \in i..Len(notes) :
                  Leq(notes[i].startTime, notes[j].startTime)

\* The number of positions of the list at which the note n stands.
Occurrences(list, n) == Cardinality({i \in 1..Len(list) : list[i] = n})

\* C26: in every result of processMidi the note ids are pairwise distinct,
\* each note of the flat list stands exactly once in the list of the track
\* its track field names and in no other track's list, the track lists
\* hold no note besides those of the flat list, metadata.totalNotes is the
\* length of the flat list, and endTime = startTime + duration.
C26_ResultInvariants ==
    \A c \in 1..Len(calls) :
        calls[c].outcome.state = "fulfilled" =>
            LET v == calls[c].outcome.value
            IN /\ \A i, j \in 1..Len(v.notes) :
                     v.notes[i].id = v.notes[j].id => i = j
               /\ \A i \in 1..Len(v.notes) : \A t \in 1..Len(v.tracks) :
                     Occurrences(v.tracks[t].notes, v.notes[i])
                        = IF t = v.notes[i].track + 1 THEN 1 ELSE 0
               /\ \A i \in 1..Len(v.notes) :
                     v.notes[i].track + 1 \in 1..Len(v.tracks)
               /\ \A t \in 1..Len(v.tracks) : \A n \in 1..Len(v.tracks[t].notes) :
                     Occurrences(v.notes, v.tracks[t].notes[n]) = 1
               /\ v.metadata.totalNotes = Len(v.notes)
               /\ \A i \in 1..Len(v.notes) :
                     v.notes[i].endTime
                        = Add(v.notes[i].startTime, v.notes[i].duration)

\* C26 witness: processMidi has built a result from a file of two tracks
\* that hold the same two notes each.
C26_Witness ==
    /\ dpc = "settled"
    /\ constructed
    /\ outcome.state = "fulfilled"
    /\ Len(midi.tracks) = 2
    /\ Len(midi.tracks[1].notes) = 2
    /\ midi.tracks[1].notes = midi.tracks[2].notes
    /\ Len(outcome.value.notes) = 4

\* C23: compareMidiData leaves generated and reference, the order of their
\* notes included, as they were passed, and a finished comparison returns
\* the report every earlier comparison of the same arguments returned,
\* whatever was compared before or between.
C23_Pure ==
    /\ [][pc # "done" => (generated' = generated /\ reference' = reference)]_vars
    /\ [](Done => \A i \in 1..Len(returned) :
                     (/\ returned[i].generated = generated
                      /\ returned[i].reference = reference
                      /\ returned[i].cfg = cfg) => returned[i].report = report)

\* C23 witness: the third comparison in a row has the arguments of the
\* first, a generated list out of time order among them, the second
\* had others, and the first and third reports have a match.
C23_Witness ==
    /\ Done
    /\ Len(returned) = 2
    /\ returned[1].generated = generated
    /\ returned[1].reference = reference
    /\ returned[1].cfg = cfg
    /\ returned[2].generated # generated
    /\ returned[2].cfg # cfg
    /\ generated.notes # generatedNotes
    /\ Len(generated.notes) = 2
    /\ report.matchedCount > 0
    /\ returned[1].report = report

\* The inter-onset intervals of the matched generated notes and of the
\* matched reference notes, in match order.
GeneratedIntervals ==
    [k \in 1..(Len(matches) - 1) |->
        Sub(matches[k + 1].generated.startTime, matches[k].generated.startTime)]

ReferenceIntervals ==
    [k \in 1..(Len(matches) - 1) |->
        Sub(matches[k + 1].reference.startTime, matches[k].reference.startTime)]

C25_ValidateRejects ==
    vpc = "returned" =>
        /\ valid => outcome.state = "fulfilled"
        /\ data.bytes = "noMagic" => ~valid

\* The letter and accidental of the pitch classes, by the scale of C.
PitchLetters ==
    [c \in 0..11 |->
        CASE c = 0 -> <<"C">>       [] c = 1 -> <<"C", "#">>
          [] c = 2 -> <<"D">>       [] c = 3 -> <<"D", "#">>
          [] c = 4 -> <<"E">>       [] c = 5 -> <<"F">>
          [] c = 6 -> <<"F", "#">>  [] c = 7 -> <<"G">>
          [] c = 8 -> <<"G", "#">>  [] c = 9 -> <<"A">>
          [] c = 10 -> <<"A", "#">> [] c = 11 -> <<"B">>]

\* The octave floor(p / 12) - 1 as a string, for the pitches up to 131.
OctaveString(p) ==
    IF p < 12 THEN <<"-", "1">> ELSE <<DigitChars[(p - (p % 12)) \div 12]>>

\* C27: for every pitch p of 0..127 the name is letter, accidental and
\* octave floor(p / 12) - 1, and getMidiNote of the name is p.
C27_RoundTrip ==
    npc = "done" =>
        /\ noteName = PitchLetters[midiNote % 12] \o OctaveString(midiNote)
        /\ parsed.ok
        /\ parsed.value = midiNote

\* The names of the pitches from 12 on are parsed back to the pitch, those
\* of the octave -1 are refused.
RoundTripFromOctaveZero ==
    npc = "done" =>
        /\ noteName = PitchLetters[midiNote % 12] \o OctaveString(midiNote)
        /\ midiNote >= 12 => parsed = Returned(midiNote)
        /\ midiNote < 12 => parsed = Thrown("Invalid note name")

\* C28: once cancelTranscription has finished nothing is dispatched for
\* the cancelled transcription: no setMidiData, setError or setTranscribing.
C28_NothingAfterCancel ==
    \A i \in 1..Len(dispatched) :
        dispatched[i].afterCancel =>
            dispatched[i].type \notin {"setMidiData", "setError", "setTranscribing"}

\* The positions of the log at which a result was delivered.
Deliveries == {i \in 1..Len(dispatched) : dispatched[i].type = "setMidiData"}

\* C29: the result of a transcription is delivered at most once, whatever
\* the ticks and the pending requests do, and once a poll has met a failed
\* status or an error of a request the polling is stopped and
\* isTranscribing is false.
C29_DeliveredOnce ==
    /\ Cardinality(Deliveries) <= 1
    /\ (\E i \in 1..Len(dispatched) :
           /\ dispatched[i].type = "setError"
           /\ dispatched[i].payload = "Failed to get transcription status")
          => (pollingIntervalRef = 0 /\ ~store.isTranscribing)

\* C30: after handleRemoveFile and until a file is dropped the store's
\* audioFile is null; a file larger than 50 MB or of a type that is not
\* listed has an error dispatched and is never the audioFile.
C30_RemovedStaysRemoved ==
    /\ removedSince => store.audioFile = NoFile
    /\ store.audioFile # NoFile =>
          /\ store.audioFile.size <= maxSize
          /\ store.audioFile.type \in validTypes
    /\ \A k \in 1..Len(acceptedFiles) :
          (acceptedFiles[k].size > maxSize \/ acceptedFiles[k].type \notin validTypes)
             => Rejections > 0

====
